---- MODULE Spec2Model ----
(***************************************************************************)
(* The extension registry of src/src/extensions/Extensions.ts as a state   *)
(* machine: the three maps of the `extensions` object, the collections the *)
(* handleBy* helpers fill, and one action per public method; and the       *)
(* display objects of src/unnamed/part_000: their fields, the Transforms   *)
(* they refer to, and one action per operation: the queries and position  *)
(* setters in SceneSpec, the setters, masks and destroy in NodeSpec, all   *)
(* of them in DisplaySpec. RawRefSpec is the registry with descriptors of  *)
(* classes that carry no metadata among the records added.                 *)
(*                                                                         *)
(* JavaScript values are tagged records ([typeof |-> ...]) so that the     *)
(* typeof tests of normalizeExtension are tests the model performs.        *)
(***************************************************************************)
EXTENDS Integers, Sequences, FiniteSets, TLC

\* ------------------------------------------------------------------ bounds
\* Number of calls to the registry's public methods in one behaviour.
MaxCalls == 3

\* ------------------------------------------------------- JavaScript values
Undefined == [typeof |-> "undefined"]
Str(s) == [typeof |-> "string", value |-> s]
Num(n) == [typeof |-> "number", value |-> n]
Arr(items) == [typeof |-> "object", isArray |-> TRUE, items |-> items]

\* Reading a property that an object does not have yields undefined.
Get(obj, field) == IF field \in DOMAIN obj THEN obj[field] ELSE Undefined

\* Truthiness of the values the registry tests (objects and non-empty
\* strings are truthy, undefined is falsy).
Truthy(v) ==
    CASE v.typeof = "undefined" -> FALSE
      [] v.typeof = "string" -> v.value # ""
      [] v.typeof = "number" -> v.value # 0
      [] OTHER -> TRUE

\* The members of the ExtensionType enum the model draws extension points from.
ExtensionType == {"application", "blend-mode"}

\* A class (typeof 'function') with the given static `extension` property.
Class(id, extension) ==
    [typeof |-> "function", id |-> id, extension |-> extension]

\* ExtensionMetadataDetails
Details(type, name, priority) ==
    [typeof |-> "object", type |-> type, name |-> name, priority |-> priority]

\* ExtensionFormatLoose
Descriptor(type, name, priority, ref) ==
    [typeof |-> "object", type |-> type, name |-> name,
     priority |-> priority, ref |-> ref]

\* Plugin classes carrying their own metadata.
PluginA == Class("PluginA", Details(Str("application"), Str("a"), Num(5)))
PluginB == Class("PluginB", Str("application"))
PluginC ==
    Class("PluginC",
          Details(Arr(<<"application", "blend-mode">>), Str("c"), Num(10)))
PluginD == Class("PluginD", Details(Str("application"), Str("a"), Num(5)))

\* NegationBlend declares `static extensions` (plural): it has no
\* `extension` property.
NegationBlend == Class("NegationBlend", Undefined)

\* Explicit descriptors overriding the metadata of the class they refer to.
DescB == Descriptor(Str("application"), Str("b"), Num(10), PluginB)
DescA == Descriptor(Arr(<<"blend-mode", "application">>), Str("c"), Undefined, PluginA)

\* A descriptor whose type is the empty list.
DescEmpty == Descriptor(Arr(<<>>), Str("e"), Undefined, PluginB)

\* A descriptor for a class that carries no metadata of its own.
DescRaw == Descriptor(Str("application"), Str("n"), Undefined, NegationBlend)

\* A primitive passed where an extension is expected.
Primitive == Num(7)

\* The argument lists add(...) and remove(...) are called with.
AddCalls ==
    {<<PluginA>>, <<PluginB>>, <<PluginC>>, <<PluginD>>, <<NegationBlend>>,
     <<DescB>>, <<DescA>>,
     <<PluginA, PluginB, PluginC>>, <<PluginD, NegationBlend>>,
     <<DescEmpty>>, <<PluginB, Primitive>>}

\* An add(...) call with a descriptor whose ref cannot itself be normalized.
RawRefCalls == {<<PluginA, DescRaw>>}

RemoveCalls ==
    {<<PluginA>>, <<PluginB>>, <<PluginC>>, <<PluginD>>, <<NegationBlend>>,
     <<DescB>>, <<DescA>>, <<PluginA, PluginC>>, <<Primitive>>}

\* The defaultPriority arguments handleByList / handleByNamedList are called with.
DefaultPriorities == {-1, 6}

\* --------------------------------------------------------------- errors
NoError == "none"
ErrNoExtension == "Extension class must have an extension object"
ErrInvalidType == "Invalid extension type"
ErrAlreadyHandled == "Extension type already has a handler"
ErrTypeError == "TypeError"

\* ------------------------------------------------------ normalizeExtension
\* The object `{ ...metadata, ref: ext }` and its copy `{ ...ext }`.
Spread(metadata, ref) ==
    [type |-> Get(metadata, "type"), name |-> Get(metadata, "name"),
     priority |-> Get(metadata, "priority"), ref |-> ref]

\* Mutation: a string type becomes an array that does not hold it.
WrapTypeDropsIt(ext) ==
    IF ext.type.typeof = "string"
    THEN [ext EXCEPT !.type = Arr(<<>>)]
    ELSE ext

\* Lines 109-112: a string type becomes a one-element array.
WrapType(ext) ==
    IF ext.type.typeof = "string"
    THEN [ext EXCEPT !.type = Arr(<<ext.type.value>>)]
    ELSE ext

normalizeExtension(ext) ==
    IF ext.typeof = "function"
       \/ (ext.typeof = "object" /\ Truthy(Get(ext, "extension")))
    THEN IF ~Truthy(Get(ext, "extension"))
         THEN [error |-> ErrNoExtension, ext |-> Undefined]
         ELSE LET metadata ==
                      IF ext.extension.typeof # "object"
                      THEN [type |-> ext.extension]
                      ELSE ext.extension
              IN [error |-> NoError, ext |-> WrapType(Spread(metadata, ext))]
    ELSE IF ext.typeof = "object"
         THEN [error |-> NoError, ext |-> WrapType(Spread(ext, Get(ext, "ref")))]
         ELSE [error |-> ErrInvalidType, ext |-> Undefined]

\* normalizeExtension(ext).priority ?? defaultPriority
normalizeExtensionPriority(ext, defaultPriority) ==
    LET priority == normalizeExtension(ext).ext.priority
    IN IF priority.typeof = "undefined" THEN defaultPriority ELSE priority.value

\* ----------------------------------------------------- Array.prototype.sort
\* list.sort((a, b) => priority(b) - priority(a)) on a list of
\* [item, priority] pairs: descending, and stable.
RECURSIVE InsertByPriority(_, _)
InsertByPriority(sorted, pair) ==
    IF sorted = <<>> THEN <<pair>>
    ELSE IF Head(sorted).priority >= pair.priority
         THEN <<Head(sorted)>> \o InsertByPriority(Tail(sorted), pair)
         ELSE <<pair>> \o sorted

RECURSIVE SortPairs(_)
SortPairs(pairs) ==
    IF pairs = <<>> THEN <<>>
    ELSE InsertByPriority(SortPairs(SubSeq(pairs, 1, Len(pairs) - 1)),
                          pairs[Len(pairs)])

\* The index of the first element satisfying the test, 0 for none
\* (findIndex / indexOf return -1).
RECURSIVE IndexOfRef(_, _)
IndexOfRef(list, ref) ==
    IF list = <<>> THEN 0
    ELSE IF Head(list) = ref THEN 1
         ELSE LET rest == IndexOfRef(Tail(list), ref)
              IN IF rest = 0 THEN 0 ELSE rest + 1

RECURSIVE IndexOfName(_, _)
IndexOfName(map, name) ==
    IF map = <<>> THEN 0
    ELSE IF Head(map).name = name THEN 1
         ELSE LET rest == IndexOfName(Tail(map), name)
              IN IF rest = 0 THEN 0 ELSE rest + 1

\* splice(index, 1)
Splice(list, index) ==
    SubSeq(list, 1, index - 1) \o SubSeq(list, index + 1, Len(list))

\* ------------------------------------------------------------- handleByMap
\* The property key a name is converted to.
KeyOf(name) == IF name.typeof = "undefined" THEN "undefined" ELSE name.value

\* Mutation: the first registration under a name wins.
MapOnAddFirstWins(map, extension) ==
    [k \in DOMAIN map \cup {KeyOf(extension.name)} |->
        IF k \in DOMAIN map THEN map[k] ELSE extension.ref]

\* map[extension.name] = extension.ref
MapOnAdd(map, extension) ==
    [k \in DOMAIN map \cup {KeyOf(extension.name)} |->
        IF k = KeyOf(extension.name) THEN extension.ref ELSE map[k]]

\* delete map[extension.name]
MapOnRemove(map, extension) ==
    [k \in DOMAIN map \ {KeyOf(extension.name)} |-> map[k]]

\* ------------------------------------------------------- handleByNamedList
\* The comparator of a sort normalizes the values it compares; it throws
\* when one of them cannot be normalized.
SortThrows(values) ==
    /\ Len(values) >= 2
    /\ \E i \in 1..Len(values) : normalizeExtension(values[i]).error # NoError

NamedListSort(map, defaultPriority) ==
    LET pairs == [i \in 1..Len(map) |->
                    [item |-> map[i],
                     priority |-> normalizeExtensionPriority(map[i].value,
                                                             defaultPriority)]]
        sorted == SortPairs(pairs)
    IN [i \in 1..Len(map) |-> sorted[i].item]

\* Mutation: no test for an entry of the same name.
NamedListOnAddAlways(map, extension, defaultPriority) ==
    LET pushed == Append(map, [name |-> extension.name, value |-> extension.ref])
    IN [list |-> NamedListSort(pushed, defaultPriority), error |-> NoError]

NamedListOnAdd(map, extension, defaultPriority) ==
    IF IndexOfName(map, extension.name) > 0
    THEN [list |-> map, error |-> NoError]
    ELSE LET pushed == Append(map, [name |-> extension.name,
                                    value |-> extension.ref])
         IN IF SortThrows([i \in 1..Len(pushed) |-> pushed[i].value])
            THEN [list |-> pushed, error |-> ErrNoExtension]
            ELSE [list |-> NamedListSort(pushed, defaultPriority),
                  error |-> NoError]

NamedListOnRemove(map, extension) ==
    LET index == IndexOfName(map, extension.name)
    IN IF index # 0 THEN Splice(map, index) ELSE map

\* ------------------------------------------------------------ handleByList
ListSort(list, defaultPriority) ==
    LET pairs == [i \in 1..Len(list) |->
                    [item |-> list[i],
                     priority |-> normalizeExtensionPriority(list[i],
                                                             defaultPriority)]]
        sorted == SortPairs(pairs)
    IN [i \in 1..Len(list) |-> sorted[i].item]

\* Mutation: no test for the ref being in the list.
ListOnAddAlways(list, extension, defaultPriority) ==
    [list |-> ListSort(Append(list, extension.ref), defaultPriority),
     error |-> NoError]

ListOnAdd(list, extension, defaultPriority) ==
    IF IndexOfRef(list, extension.ref) > 0
    THEN [list |-> list, error |-> NoError]
    ELSE LET pushed == Append(list, extension.ref)
         IN IF SortThrows(pushed)
            THEN [list |-> pushed, error |-> ErrNoExtension]
            ELSE [list |-> ListSort(pushed, defaultPriority), error |-> NoError]

ListOnRemove(list, extension) ==
    LET index == IndexOfRef(list, extension.ref)
    IN IF index # 0 THEN Splice(list, index) ELSE list

\* ------------------------------------------------------------------- state
VARIABLES
    addHandlers,      \* extensions._addHandlers: per type, the installed onAdd
    removeHandlers,   \* extensions._removeHandlers: per type, the installed onRemove
    queue,            \* extensions._queue: per type, the records awaiting a handler
    targetMap,        \* per type, the map handed to handleByMap
    targetNamedList,  \* per type, the array handed to handleByNamedList
    targetList,       \* per type, the array handed to handleByList
    calls,            \* history: the handler invocations, in order
    added,            \* history: per type, the records completed add calls declared for
                      \* it, each with whether the type had a handler on arrival
    error,            \* the error the last call threw, or NoError
    lastCall,         \* the last call and its arguments
    nCalls            \* number of calls made

\* The display objects (src/unnamed/part_000) and window.pixiChanged.
VARIABLES
    parent,                   \* per object, this.parent
    tempDisplayObjectParent,  \* per object, this.tempDisplayObjectParent
    transform,                \* per object, the Transform this._transform refers to
    position,                 \* per Transform, its position
    worldTransform,           \* per Transform, its worldTransform Matrix
    alpha,                    \* per object, this._alpha
    worldAlpha,               \* per object, this.worldAlpha
    boundsID,                 \* per object, this._boundsID
    lastBoundsID,             \* per object, this._lastBoundsID
    bounds,                   \* per object, this._bounds
    visible,                  \* per object, this._visible
    renderable,               \* per object, this._renderable
    zIndex,                   \* per object, this._zIndex
    sortDirty,                \* per object, the sortDirty its children's zIndex sets
    rotation,                 \* per Transform, its rotation
    scale,                    \* per Transform, its scale
    skew,                     \* per Transform, its skew
    pivot,                    \* per Transform, its pivot
    mask,                     \* per object, this._mask
    isMask,                   \* per object, this.isMask
    destroyed,                \* per object, this._destroyed
    pixiChanged,              \* window.pixiChanged
    constructed,              \* the display objects `new DisplayObject()` has made
    lastOp,                   \* the last operation, its arguments and its outcome
    nOps                      \* number of operations made

registryVars == <<addHandlers, removeHandlers, queue, targetMap, targetNamedList,
                  targetList, calls, added, error, lastCall, nCalls>>

sceneVars == <<parent, tempDisplayObjectParent, transform, position,
               worldTransform, alpha, worldAlpha, boundsID, lastBoundsID,
               bounds, visible, renderable, zIndex, sortDirty, rotation, scale,
               skew, pivot, mask, isMask, destroyed, pixiChanged, constructed,
               lastOp, nOps>>

vars == <<registryVars, sceneVars>>

NoHandler == [kind |-> "none"]

\* The handler pairs the four installing methods create.
Handlers ==
    {[kind |-> "handle"], [kind |-> "handleByMap"]}
    \cup {[kind |-> k, defaultPriority |-> p] :
            k \in {"handleByNamedList", "handleByList"}, p \in DefaultPriorities}

EmptyMap == [k \in {} |-> Undefined]

\* The registry and the collections its handlers write, as one value, at the
\* start of a call to `method`.
Registry(method) ==
    [addHandlers |-> addHandlers, removeHandlers |-> removeHandlers,
     queue |-> queue, targetMap |-> targetMap,
     targetNamedList |-> targetNamedList, targetList |-> targetList,
     calls |-> calls, error |-> NoError, via |-> method]

\* The history entry of one handler invocation: which handler, for which
\* type, with which record, during a call to which method.
Invocation(R, fn, type, ext) ==
    [fn |-> fn, type |-> type, ext |-> ext, via |-> R.via]

\* ----------------------------------------------------- handler invocations
\* handlers[type](ext) for the onAdd a handle* method installed.
InvokeAdd(R, type, ext) ==
    LET h == R.addHandlers[type]
        logged == [R EXCEPT !.calls = Append(@, Invocation(R, "onAdd", type, ext))]
    IN CASE h.kind = "handleByMap" ->
              [logged EXCEPT !.targetMap[type] = MapOnAdd(@, ext)]
         [] h.kind = "handleByNamedList" ->
              LET r == NamedListOnAdd(R.targetNamedList[type], ext,
                                      h.defaultPriority)
              IN [logged EXCEPT !.targetNamedList[type] = r.list,
                                !.error = r.error]
         [] h.kind = "handleByList" ->
              LET r == ListOnAdd(R.targetList[type], ext, h.defaultPriority)
              IN [logged EXCEPT !.targetList[type] = r.list, !.error = r.error]
         [] OTHER -> logged

\* Mutation: without a remove-handler, remove takes the record out of the
\* type's pending queue.
InvokeRemovePurging(R, type, ext) ==
    LET h == R.removeHandlers[type]
        logged == [R EXCEPT !.calls = Append(@, Invocation(R, "onRemove", type, ext))]
    IN CASE h = NoHandler ->
              [R EXCEPT !.queue[type] = SelectSeq(@, LAMBDA e : e # ext)]
         [] h.kind = "handleByMap" ->
              [logged EXCEPT !.targetMap[type] = MapOnRemove(@, ext)]
         [] h.kind = "handleByNamedList" ->
              [logged EXCEPT !.targetNamedList[type] = NamedListOnRemove(@, ext)]
         [] h.kind = "handleByList" ->
              [logged EXCEPT !.targetList[type] = ListOnRemove(@, ext)]
         [] OTHER -> logged

\* this._removeHandlers[type]?.(ext)
InvokeRemove(R, type, ext) ==
    LET h == R.removeHandlers[type]
        logged == [R EXCEPT !.calls = Append(@, Invocation(R, "onRemove", type, ext))]
    IN CASE h = NoHandler -> R
         [] h.kind = "handleByMap" ->
              [logged EXCEPT !.targetMap[type] = MapOnRemove(@, ext)]
         [] h.kind = "handleByNamedList" ->
              [logged EXCEPT !.targetNamedList[type] = NamedListOnRemove(@, ext)]
         [] h.kind = "handleByList" ->
              [logged EXCEPT !.targetList[type] = ListOnRemove(@, ext)]
         [] OTHER -> logged

\* ---------------------------------------------------------- extensions.add
\* Mutation: a record without a handler goes to the front of the queue.
AddTypePrepends(R, ext, type) ==
    IF R.addHandlers[type] = NoHandler
    THEN [R EXCEPT !.queue[type] = <<ext>> \o @]
    ELSE InvokeAdd(R, type, ext)

\* Lines 169-180: the body run for one type of one record.
AddType(R, ext, type) ==
    IF R.addHandlers[type] = NoHandler
    THEN [R EXCEPT !.queue[type] = Append(@, ext)]
    ELSE InvokeAdd(R, type, ext)

\* Mutation: only the first type of a record is looked at.
AddTypesFirstOnly(R, ext, types) ==
    IF types = <<>> \/ R.error # NoError THEN R
    ELSE AddType(R, ext, Head(types))

RECURSIVE AddTypes(_, _, _)
AddTypes(R, ext, types) ==
    IF types = <<>> \/ R.error # NoError THEN R
    ELSE AddTypes(AddType(R, ext, Head(types)), ext, Tail(types))

RECURSIVE AddEach(_, _)
AddEach(R, exts) ==
    IF exts = <<>> \/ R.error # NoError THEN R
    ELSE IF Get(Head(exts).type, "isArray") # TRUE
         THEN [R EXCEPT !.error = ErrTypeError]
         ELSE AddEach(AddTypes(R, Head(exts), Head(exts).type.items), Tail(exts))

\* extensions.map(normalizeExtension): the records, or the first error thrown.
NormalizeAll(extensions) ==
    LET results == [i \in 1..Len(extensions) |-> normalizeExtension(extensions[i])]
        failed == {i \in 1..Len(extensions) : results[i].error # NoError}
    IN IF failed = {}
       THEN [error |-> NoError,
             exts |-> [i \in 1..Len(extensions) |-> results[i].ext]]
       ELSE [error |-> results[CHOOSE i \in failed :
                                  \A j \in failed : i <= j].error,
             exts |-> <<>>]

\* Mutation: each item is normalized only when its turn comes, after the
\* items before it have been registered.
RECURSIVE AddLazyEach(_, _)
AddLazyEach(R, items) ==
    IF items = <<>> \/ R.error # NoError THEN R
    ELSE LET n == normalizeExtension(Head(items))
         IN IF n.error # NoError THEN [R EXCEPT !.error = n.error]
            ELSE AddLazyEach(AddEach(R, <<n.ext>>), Tail(items))

addLazy(R, extensions) == AddLazyEach(R, extensions)

add(R, extensions) ==
    LET n == NormalizeAll(extensions)
    IN IF n.error # NoError THEN [R EXCEPT !.error = n.error]
       ELSE AddEach(R, n.exts)

\* ------------------------------------------------------- extensions.remove
RECURSIVE RemoveTypes(_, _, _)
RemoveTypes(R, ext, types) ==
    IF types = <<>> \/ R.error # NoError THEN R
    ELSE RemoveTypes(InvokeRemove(R, Head(types), ext), ext, Tail(types))

RECURSIVE RemoveEach(_, _)
RemoveEach(R, exts) ==
    IF exts = <<>> \/ R.error # NoError THEN R
    ELSE IF Get(Head(exts).type, "isArray") # TRUE
         THEN [R EXCEPT !.error = ErrTypeError]
         ELSE RemoveEach(RemoveTypes(R, Head(exts), Head(exts).type.items),
                         Tail(exts))

remove(R, extensions) ==
    LET n == NormalizeAll(extensions)
    IN IF n.error # NoError THEN [R EXCEPT !.error = n.error]
       ELSE RemoveEach(R, n.exts)

\* ------------------------------------------------------- extensions.handle
\* Mutation: the queue is drained from its end.
RECURSIVE DrainLifo(_, _, _)
DrainLifo(R, type, queued) ==
    IF queued = <<>> \/ R.error # NoError THEN R
    ELSE DrainLifo(InvokeAdd(R, type, queued[Len(queued)]), type,
                   SubSeq(queued, 1, Len(queued) - 1))

\* queue[type].forEach((ext) => onAdd(ext))
RECURSIVE Drain(_, _, _)
Drain(R, type, queued) ==
    IF queued = <<>> \/ R.error # NoError THEN R
    ELSE Drain(InvokeAdd(R, type, Head(queued)), type, Tail(queued))

\* Mutation: the drained queue is not discarded.
handleKeepsQueue(R, type, handlers) ==
    IF R.addHandlers[type] # NoHandler \/ R.removeHandlers[type] # NoHandler
    THEN [R EXCEPT !.error = ErrAlreadyHandled]
    ELSE LET installed == [R EXCEPT !.addHandlers[type] = handlers,
                                    !.removeHandlers[type] = handlers]
         IN IF installed.queue[type] # <<>>
            THEN Drain(installed, type, installed.queue[type])
            ELSE installed

\* Mutation: no test for handlers being installed already.
handleOverwrites(R, type, handlers) ==
    LET installed == [R EXCEPT !.addHandlers[type] = handlers,
                               !.removeHandlers[type] = handlers]
    IN IF installed.queue[type] # <<>>
       THEN LET drained == Drain(installed, type, installed.queue[type])
            IN IF drained.error # NoError THEN drained
               ELSE [drained EXCEPT !.queue[type] = <<>>]
       ELSE installed

\* `handlers` stands for the (onAdd, onRemove) pair passed in.
handle(R, type, handlers) ==
    IF R.addHandlers[type] # NoHandler \/ R.removeHandlers[type] # NoHandler
    THEN [R EXCEPT !.error = ErrAlreadyHandled]
    ELSE LET installed == [R EXCEPT !.addHandlers[type] = handlers,
                                    !.removeHandlers[type] = handlers]
         IN IF installed.queue[type] # <<>>
            THEN LET drained == Drain(installed, type, installed.queue[type])
                 IN IF drained.error # NoError THEN drained
                    ELSE [drained EXCEPT !.queue[type] = <<>>]
            ELSE installed

handleByMap(R, type) == handle(R, type, [kind |-> "handleByMap"])

handleByNamedList(R, type, defaultPriority) ==
    handle(R, type, [kind |-> "handleByNamedList",
                     defaultPriority |-> defaultPriority])

handleByList(R, type, defaultPriority) ==
    handle(R, type, [kind |-> "handleByList",
                     defaultPriority |-> defaultPriority])

\* --------------------------------------------------------- display objects
\* Number of operations on the display objects in one behaviour.
MaxOps == 3

Null == "null"

\* The display objects of the scene, and the ones the _tempDisplayObjectParent
\* getter can construct, in order of construction.
Nodes == {"R", "C", "G"}
Temps == <<"t1", "t2", "t3">>
Objects == Nodes \cup {Temps[i] : i \in 1..Len(Temps)}

\* Alphas are dyadic fractions, which the multiplication of doubles keeps exact.
Rat(n, d) == [num |-> n, den |-> d]

RECURSIVE Lowest(_)
Lowest(q) ==
    IF q.num = 0 THEN Rat(0, 1)
    ELSE IF q.num % 2 = 0 /\ q.den % 2 = 0
         THEN Lowest(Rat(q.num \div 2, q.den \div 2))
         ELSE q

Times(a, b) == Lowest(Rat(a.num * b.num, a.den * b.den))

Point(x, y) == [x |-> x, y |-> y]

EmptyBounds == [empty |-> TRUE]

\* this._bounds of a destroyed object
NullBounds == [null |-> TRUE]

\* The values the operations of the scene are called with.
Alphas == {Rat(1, 1), Rat(1, 2)}
Xs == {0, 10}
Ys == {0, 5}
Points == {Point(1, 2)}
Froms == {Null, "C"}

ErrHook == "calculateBounds raised"
ErrNotContainer == "setParent: Argument must be a Container"

\* The value of a call that returns a display object.
Reference(o) == [object |-> o]

\* The scene as one value, at the start of an operation.
Scene ==
    [parent |-> parent,
     tempDisplayObjectParent |-> tempDisplayObjectParent,
     transform |-> transform,
     position |-> position,
     worldTransform |-> worldTransform,
     alpha |-> alpha,
     worldAlpha |-> worldAlpha,
     boundsID |-> boundsID,
     lastBoundsID |-> lastBoundsID,
     bounds |-> bounds,
     visible |-> visible,
     renderable |-> renderable,
     zIndex |-> zIndex,
     sortDirty |-> sortDirty,
     rotation |-> rotation,
     scale |-> scale,
     skew |-> skew,
     pivot |-> pivot,
     mask |-> mask,
     isMask |-> isMask,
     destroyed |-> destroyed,
     pixiChanged |-> pixiChanged,
     constructed |-> constructed,
     error |-> NoError,
     calculated |-> 0,
     returned |-> Undefined]

Throw(S, e) == [S EXCEPT !.error = e]

\* `new DisplayObject()`: the next object, with the fields its constructor
\* gives it, which every object not yet constructed already holds.
New(S) == Temps[Cardinality(S.constructed \cap (Objects \ Nodes)) + 1]

\* Mutation: one sentinel for all objects.
TempDisplayObjectParentShared(S, o) ==
    IF S.tempDisplayObjectParent[o] = Null
    THEN [S EXCEPT !.tempDisplayObjectParent[o] = Temps[1],
                   !.constructed = @ \cup {Temps[1]}]
    ELSE S

\* this._tempDisplayObjectParent
TempDisplayObjectParent(S, o) ==
    IF S.tempDisplayObjectParent[o] = Null
    THEN [S EXCEPT !.tempDisplayObjectParent[o] = New(S),
                   !.constructed = @ \cup {New(S)}]
    ELSE S

\* A Matrix | a c tx |
\*          | b d ty |
Matrix(a, b, c, d, tx, ty) ==
    [a |-> a, b |-> b, c |-> c, d |-> d, tx |-> tx, ty |-> ty]

\* The numbers Infinity and NaN, as integers away from the finite numbers of
\* the model, and the sum and the difference of two numbers of which the
\* first may be Infinity and either may be NaN.
Infinity == 1000000

NaN == 0 - 1000000

Sum(m, n) ==
    IF m = NaN \/ n = NaN THEN NaN
    ELSE IF m = Infinity THEN Infinity
    ELSE m + n

Difference(m, n) ==
    IF m = NaN \/ n = NaN THEN NaN
    ELSE IF m = Infinity THEN Infinity
    ELSE m - n

\* Math.cos and Math.sin at 0, the angle whose cosine and sine are exact.
Cos(radians) == CASE radians = 0 -> 1

Sin(radians) == CASE radians = 0 -> 0

\* The Matrix whose entries are all NaN. A product and a sum with NaN are
\* NaN, so a Matrix computed from one that has a NaN entry is this Matrix.
NaNMatrix == Matrix(NaN, NaN, NaN, NaN, NaN, NaN)

\* Transform.updateSkew and updateLocalTransform: the entries of the
\* localTransform of the Transform t, from its position, scale, rotation,
\* skew and pivot.
LocalA(S, t) == Cos(S.rotation[t] + S.skew[t].y) * S.scale[t].x

LocalB(S, t) == Sin(S.rotation[t] + S.skew[t].y) * S.scale[t].x

LocalC(S, t) == (0 - Sin(S.rotation[t] - S.skew[t].x)) * S.scale[t].y

LocalD(S, t) == Cos(S.rotation[t] - S.skew[t].x) * S.scale[t].y

\* Math.cos and Math.sin of Infinity are NaN, and with them every entry.
localTransform(S, t) ==
    IF Sum(S.rotation[t], S.skew[t].y) = Infinity
       \/ Difference(S.rotation[t], S.skew[t].x) = Infinity
    THEN NaNMatrix
    ELSE Matrix(LocalA(S, t), LocalB(S, t), LocalC(S, t), LocalD(S, t),
                S.position[t].x
                  - (S.pivot[t].x * LocalA(S, t) + S.pivot[t].y * LocalC(S, t)),
                S.position[t].y
                  - (S.pivot[t].x * LocalB(S, t) + S.pivot[t].y * LocalD(S, t)))

\* The local transform lt concatenated to the parent's world transform pt.
Concatenated(lt, pt) ==
    IF lt = NaNMatrix \/ pt = NaNMatrix THEN NaNMatrix
    ELSE Matrix(lt.a * pt.a + lt.b * pt.c,
                lt.a * pt.b + lt.b * pt.d,
                lt.c * pt.a + lt.d * pt.c,
                lt.c * pt.b + lt.d * pt.d,
                lt.tx * pt.a + lt.ty * pt.c + pt.tx,
                lt.tx * pt.b + lt.ty * pt.d + pt.ty)

\* The same where the parent's world transform is the world transform wt
\* that is being assigned: the assignments of c, d, tx and ty read the
\* entries a and b, and tx and ty the entries c and d, that the assignments
\* before them have written.
AssignedA(lt, wt) == lt.a * wt.a + lt.b * wt.c

AssignedB(lt, wt) == lt.a * wt.b + lt.b * wt.d

AssignedC(lt, wt) == lt.c * AssignedA(lt, wt) + lt.d * wt.c

AssignedD(lt, wt) == lt.c * AssignedB(lt, wt) + lt.d * wt.d

ConcatenatedInPlace(lt, wt) ==
    IF lt = NaNMatrix \/ wt = NaNMatrix THEN NaNMatrix
    ELSE Matrix(AssignedA(lt, wt), AssignedB(lt, wt),
                AssignedC(lt, wt), AssignedD(lt, wt),
                lt.tx * AssignedA(lt, wt) + lt.ty * AssignedC(lt, wt) + wt.tx,
                lt.tx * AssignedB(lt, wt) + lt.ty * AssignedD(lt, wt) + wt.ty)

\* Transform.updateTransform(parentTransform) of the Transform t: the world
\* transform is the parent's world transform followed by the local transform.
TransformUpdateTransform(S, t, parentTransform) ==
    IF t = Null \/ parentTransform = Null
    THEN Throw(S, ErrTypeError)
    ELSE IF t = parentTransform
    THEN [S EXCEPT !.worldTransform[t] =
            ConcatenatedInPlace(localTransform(S, t), S.worldTransform[t])]
    ELSE [S EXCEPT !.worldTransform[t] =
            Concatenated(localTransform(S, t),
                         S.worldTransform[parentTransform])]

\* The Transform of this.parent, or Null where this.parent is null.
ParentTransform(S, o) ==
    IF S.parent[o] = Null THEN Null ELSE S.transform[S.parent[o]]

\* Every operation below leaves a scene in which an error was thrown as it is:
\* the statements after a throw do not run.

\* this.transform.updateTransform(this.parent.transform)
NodeTransformUpdate(S, o) ==
    IF S.error # NoError THEN S
    ELSE TransformUpdateTransform(S, S.transform[o], ParentTransform(S, o))

\* this.transform.updateTransform(this._tempDisplayObjectParent.transform)
TempTransformUpdate(S, o) ==
    IF S.error # NoError THEN S
    ELSE TransformUpdateTransform(S, S.transform[o],
                                  S.transform[S.tempDisplayObjectParent[o]])

\* this._boundsID++
IncrementBoundsID(S, o) ==
    IF S.error # NoError THEN S ELSE [S EXCEPT !.boundsID[o] = @ + 1]

\* Mutation: worldAlpha is left as it is.
MultiplyAlphasSkipped(S, o) == S

\* this.worldAlpha = this.alpha * this.parent.worldAlpha
MultiplyAlphas(S, o) ==
    IF S.error # NoError THEN S
    ELSE [S EXCEPT !.worldAlpha[o] = Times(S.alpha[o], S.worldAlpha[S.parent[o]])]

\* Mutation: _boundsID is not incremented.
updateTransformKeepsID(S, o) ==
    MultiplyAlphas(NodeTransformUpdate(S, o), o)

updateTransform(S, o) ==
    MultiplyAlphas(NodeTransformUpdate(IncrementBoundsID(S, o), o), o)

\* set alpha(value), set x(value), set y(value)
setAlpha(S, o, value) ==
    [S EXCEPT !.pixiChanged = @ \/ S.alpha[o] # value,
              !.alpha[o] = value]

\* Mutation: the signal is raised whatever the value.
setXAlwaysSignals(S, o, value) ==
    IF S.transform[o] = Null THEN Throw(S, ErrTypeError)
    ELSE [S EXCEPT !.pixiChanged = TRUE,
                   !.position[S.transform[o]].x = value]

setX(S, o, value) ==
    IF S.transform[o] = Null THEN Throw(S, ErrTypeError)
    ELSE [S EXCEPT !.pixiChanged = @ \/ S.position[S.transform[o]].x # value,
                   !.position[S.transform[o]].x = value]

setY(S, o, value) ==
    IF S.transform[o] = Null THEN Throw(S, ErrTypeError)
    ELSE [S EXCEPT !.pixiChanged = @ \/ S.position[S.transform[o]].y # value,
                   !.position[S.transform[o]].y = value]

\* The components of a Transform that the setters assign.
Local(S, t) ==
    [position |-> S.position[t], scale |-> S.scale[t], rotation |-> S.rotation[t],
     skew |-> S.skew[t], pivot |-> S.pivot[t]]

\* set transform(value)
transformSetter(S, o, value) ==
    IF S.error # NoError THEN S
    ELSE IF S.pixiChanged THEN [S EXCEPT !.transform[o] = value]
    ELSE IF S.transform[o] = Null \/ value = Null THEN Throw(S, ErrTypeError)
    ELSE [S EXCEPT !.pixiChanged = Local(S, S.transform[o]) # Local(S, value),
                   !.transform[o] = value]

\* set visible(value), set renderable(value), set zIndex(value),
\* set rotation(value)
setVisible(S, o, value) ==
    IF S.error # NoError THEN S
    ELSE [S EXCEPT !.pixiChanged = @ \/ S.visible[o] # value,
                   !.visible[o] = value]

setRenderable(S, o, value) ==
    IF S.error # NoError THEN S
    ELSE [S EXCEPT !.pixiChanged = @ \/ S.renderable[o] # value,
                   !.renderable[o] = value]

\* if (this.parent) { this.parent.sortDirty = true; }
DirtyParent(S, o) ==
    IF S.error # NoError \/ S.parent[o] = Null THEN S
    ELSE [S EXCEPT !.sortDirty[S.parent[o]] = TRUE]

setZIndex(S, o, value) ==
    DirtyParent([S EXCEPT !.pixiChanged = @ \/ S.zIndex[o] # value,
                          !.zIndex[o] = value], o)

setRotation(S, o, value) ==
    IF S.transform[o] = Null THEN Throw(S, ErrTypeError)
    ELSE [S EXCEPT !.pixiChanged = @ \/ S.rotation[S.transform[o]] # value,
                   !.rotation[S.transform[o]] = value]

\* set position(value), set scale(value), set pivot(value), set skew(value):
\* ObservablePoint.equals and copyFrom on the Transform's own point.
setPosition(S, o, value) ==
    IF S.transform[o] = Null THEN Throw(S, ErrTypeError)
    ELSE [S EXCEPT !.pixiChanged = @ \/ S.position[S.transform[o]] # value,
                   !.position[S.transform[o]] = value]

setScale(S, o, value) ==
    IF S.transform[o] = Null THEN Throw(S, ErrTypeError)
    ELSE [S EXCEPT !.pixiChanged = @ \/ S.scale[S.transform[o]] # value,
                   !.scale[S.transform[o]] = value]

setPivot(S, o, value) ==
    IF S.transform[o] = Null THEN Throw(S, ErrTypeError)
    ELSE [S EXCEPT !.pixiChanged = @ \/ S.pivot[S.transform[o]] # value,
                   !.pivot[S.transform[o]] = value]

setSkew(S, o, value) ==
    IF S.transform[o] = Null THEN Throw(S, ErrTypeError)
    ELSE [S EXCEPT !.pixiChanged = @ \/ S.skew[S.transform[o]] # value,
                   !.skew[S.transform[o]] = value]

\* value * DEG_TO_RAD, for the angles the model assigns.
DegToRad(value) == CASE value = 0 -> 0

\* set angle(value)
setAngle(S, o, value) == setRotation(S, o, DegToRad(value))

\* !scaleX ? 1 : scaleX
ScaleOrOne(v) == IF v = 0 THEN 1 ELSE v

\* The components setTransform assigns, from its arguments
\* <<x, y, scaleX, scaleY, rotation, skewX, skewY, pivotX, pivotY>>.
Assigned(a) ==
    [position |-> Point(a[1], a[2]),
     scale |-> Point(ScaleOrOne(a[3]), ScaleOrOne(a[4])),
     rotation |-> a[5],
     skew |-> Point(a[6], a[7]),
     pivot |-> Point(a[8], a[9])]

\* setTransform(x, y, scaleX, scaleY, rotation, skewX, skewY, pivotX, pivotY)
setTransform(S, o, a) ==
    IF S.transform[o] = Null THEN Throw(S, ErrTypeError)
    ELSE [S EXCEPT !.pixiChanged = @ \/ Local(S, S.transform[o]) # Assigned(a),
                   !.position[S.transform[o]] = Assigned(a).position,
                   !.scale[S.transform[o]] = Assigned(a).scale,
                   !.rotation[S.transform[o]] = Assigned(a).rotation,
                   !.skew[S.transform[o]] = Assigned(a).skew,
                   !.pivot[S.transform[o]] = Assigned(a).pivot,
                   !.returned = Reference(o)]

\* this._mask.maskObject || this._mask, of a mask that is a display object
MaskObject(S, o) == S.mask[o]

\* The mask setter frees the object that was the mask ...
ReleaseMask(S, o) ==
    IF S.error # NoError \/ S.mask[o] = Null THEN S
    ELSE [setRenderable(S, MaskObject(S, o), TRUE)
             EXCEPT !.isMask[MaskObject(S, o)] = FALSE]

\* ... and takes the object that becomes it.
EngageMask(S, o) ==
    IF S.error # NoError \/ S.mask[o] = Null THEN S
    ELSE [setRenderable(S, MaskObject(S, o), FALSE)
             EXCEPT !.isMask[MaskObject(S, o)] = TRUE]

\* this._mask = value
AssignMask(S, o, value) ==
    IF S.error # NoError THEN S ELSE [S EXCEPT !.mask[o] = value]

\* Mutation: the object that was the mask is not freed.
setMaskKeepsOld(S, o, value) ==
    EngageMask(AssignMask([S EXCEPT !.pixiChanged = TRUE], o, value), o)

\* set mask(value)
setMask(S, o, value) ==
    EngageMask(AssignMask(ReleaseMask([S EXCEPT !.pixiChanged = TRUE], o),
                          o, value), o)

\* The display objects that are Containers: R and C. G and the sentinels are
\* plain display objects, without addChild and removeChild.
Containers == {"R", "C"}

\* Container.removeChild: the child leaves the container.
removeChild(S, container, child) == [S EXCEPT !.parent[child] = Null]

\* if (this.parent) { this.parent.removeChild(this); }
LeaveParent(S, o) ==
    IF S.error # NoError \/ S.parent[o] = Null THEN S
    ELSE IF S.parent[o] \notin Containers THEN Throw(S, ErrTypeError)
    ELSE removeChild(S, S.parent[o], o)

\* Container.addChild: the child leaves the parent it has and the container
\* becomes its parent.
addChild(S, container, child) ==
    IF LeaveParent(S, child).error # NoError THEN LeaveParent(S, child)
    ELSE [LeaveParent(S, child) EXCEPT !.parent[child] = container]

\* setParent(container)
setParent(S, o, container) ==
    IF container \notin Containers THEN Throw(S, ErrNotContainer)
    ELSE [addChild(S, container, o) EXCEPT
            !.returned = IF addChild(S, container, o).error # NoError
                         THEN @ ELSE Reference(container)]

\* The fields destroy clears after the transform, and its flag.
ReleaseFields(S, o) ==
    IF S.error # NoError THEN S
    ELSE [S EXCEPT !.parent[o] = Null,
                   !.bounds[o] = NullBounds,
                   !.mask[o] = Null,
                   !.destroyed[o] = TRUE]

destroy(S, o) ==
    ReleaseFields(transformSetter(LeaveParent(S, o), o, Null), o)

\* Mutation: the walk up the ancestors increments their _boundsID.
RECURSIVE recursivePostUpdateTransformBumps(_, _)
recursivePostUpdateTransformBumps(S, o) ==
    IF S.error # NoError THEN S
    ELSE IF S.parent[o] # Null
    THEN NodeTransformUpdate(
             IncrementBoundsID(recursivePostUpdateTransformBumps(S, S.parent[o]),
                               S.parent[o]), o)
    ELSE IF S.transform[o] = Null THEN Throw(S, ErrTypeError)
    ELSE TempTransformUpdate(TempDisplayObjectParent(S, o), o)

\* _recursivePostUpdateTransform
RECURSIVE recursivePostUpdateTransform(_, _)
recursivePostUpdateTransform(S, o) ==
    IF S.error # NoError THEN S
    ELSE IF S.parent[o] # Null
    THEN NodeTransformUpdate(recursivePostUpdateTransform(S, S.parent[o]), o)
    ELSE IF S.transform[o] = Null THEN Throw(S, ErrTypeError)
    ELSE TempTransformUpdate(TempDisplayObjectParent(S, o), o)

\* What a call of the node's bounds-computation hook does. R is of the base
\* class, whose hook is a no-op; C and G are of a class that overrides it, to
\* reset the bounds and accumulate a unit square of geometry at the node's
\* world position, or to raise.
Hooks(o) == IF o = "R" THEN {"base"} ELSE {"override", "raises"}

\* The bounds of a unit square of geometry at the world position (w.tx, w.ty).
UnitSquareAt(w) ==
    [empty |-> FALSE, minX |-> w.tx, minY |-> w.ty,
     maxX |-> Sum(w.tx, 1), maxY |-> Sum(w.ty, 1)]

calculateBounds(S, o, hook) ==
    CASE S.error # NoError -> S
      [] hook = "base" -> [S EXCEPT !.calculated = @ + 1]
      [] hook = "raises" -> [S EXCEPT !.calculated = @ + 1, !.error = ErrHook]
      [] hook = "override" ->
           IF S.transform[o] = Null \/ S.bounds[o] = NullBounds
           THEN Throw(S, ErrTypeError)
           ELSE [S EXCEPT !.calculated = @ + 1,
                          !.bounds[o] = UnitSquareAt(S.worldTransform[S.transform[o]])]

\* Bounds.getRectangle: Rectangle.EMPTY for empty bounds.
getRectangle(b) ==
    IF b.empty
    THEN [x |-> 0, y |-> 0, width |-> 0, height |-> 0]
    ELSE [x |-> b.minX, y |-> b.minY,
          width |-> Difference(b.maxX, b.minX),
          height |-> Difference(b.maxY, b.minY)]

\* this.parent = this._tempDisplayObjectParent
AttachTemp(S, o) == [S EXCEPT !.parent[o] = S.tempDisplayObjectParent[o]]

\* this.parent = parentRef, after the statements before it
AssignParent(S, o, parentRef) ==
    IF S.error # NoError THEN S ELSE [S EXCEPT !.parent[o] = parentRef]

\* The transform refresh of getBounds, toGlobal and toLocal for a node
\* without a parent.
UpdateUnderTemp(S, o) ==
    AssignParent(updateTransform(AttachTemp(TempDisplayObjectParent(S, o), o), o),
              o, Null)

\* this._lastBoundsID = this._boundsID
TagBounds(S, o) ==
    IF S.error # NoError THEN S ELSE [S EXCEPT !.lastBoundsID[o] = S.boundsID[o]]

\* Mutation: no test of the cache tag.
RefreshBoundsAlways(S, o, hook) ==
    TagBounds(calculateBounds(S, o, hook), o)

\* Mutation: _lastBoundsID is not written.
RefreshBoundsKeepsTag(S, o, hook) ==
    IF S.error # NoError \/ S.boundsID[o] = S.lastBoundsID[o] THEN S
    ELSE calculateBounds(S, o, hook)

\* The cache test of getBounds.
RefreshBounds(S, o, hook) ==
    IF S.error # NoError \/ S.boundsID[o] = S.lastBoundsID[o] THEN S
    ELSE TagBounds(calculateBounds(S, o, hook), o)

\* return this._bounds.getRectangle(rect)
ReturnBounds(S, o) ==
    IF S.error # NoError THEN S
    ELSE IF S.bounds[o] = NullBounds THEN Throw(S, ErrTypeError)
    ELSE [S EXCEPT !.returned = getRectangle(S.bounds[o])]

\* The transform refresh of getBounds.
BoundsUpdate(S, o) ==
    IF S.error # NoError THEN S
    ELSE IF S.parent[o] = Null THEN UpdateUnderTemp(S, o)
    ELSE updateTransform(recursivePostUpdateTransform(S, o), o)

\* Mutation: skipUpdate is taken as true.
getBoundsNeverUpdates(S, o, skipUpdate, hook) ==
    ReturnBounds(RefreshBounds(S, o, hook), o)

getBounds(S, o, skipUpdate, hook) ==
    ReturnBounds(RefreshBounds(IF skipUpdate THEN S ELSE BoundsUpdate(S, o),
                               o, hook), o)

\* this.transform = this._tempDisplayObjectParent.transform
TempTransform(S, o) ==
    transformSetter(S, o, S.transform[S.tempDisplayObjectParent[o]])

getLocalBounds(S, o, hook) ==
    transformSetter(
        AssignParent(
            getBounds(TempTransform(TempDisplayObjectParent(
                          [S EXCEPT !.parent[o] = Null], o), o),
                      o, FALSE, hook),
            o, S.parent[o]),
        o, S.transform[o])

\* Matrix.apply. Each coordinate of the result is a sum with a product of
\* pos.x and one of pos.y, so it is NaN when either is.
apply(w, pos) ==
    IF w = NaNMatrix \/ pos.x = NaN \/ pos.y = NaN THEN Point(NaN, NaN)
    ELSE Point(w.a * pos.x + w.c * pos.y + w.tx,
               w.b * pos.x + w.d * pos.y + w.ty)

\* 1 / determinant, for the determinants whose reciprocal is an integer.
Reciprocal(determinant) ==
    CASE determinant = 1 -> 1
      [] determinant = 0 - 1 -> 0 - 1

\* const id = 1 / ((this.a * this.d) + (this.c * -this.b))
InverseDeterminant(w) == Reciprocal(w.a * w.d + w.c * (0 - w.b))

\* Matrix.applyInverse, NaN as Matrix.apply is.
applyInverse(w, pos) ==
    IF w = NaNMatrix \/ pos.x = NaN \/ pos.y = NaN THEN Point(NaN, NaN)
    ELSE Point(w.d * InverseDeterminant(w) * pos.x
                 + (0 - w.c) * InverseDeterminant(w) * pos.y
                 + (w.ty * w.c - w.tx * w.d) * InverseDeterminant(w),
               w.a * InverseDeterminant(w) * pos.y
                 + (0 - w.b) * InverseDeterminant(w) * pos.x
                 + ((0 - w.ty) * w.a + w.tx * w.b) * InverseDeterminant(w))

\* get worldTransform
WorldTransformOf(S, o) == S.worldTransform[S.transform[o]]

\* The update of the node itself in toGlobal and toLocal.
OwnUpdate(S, o) ==
    IF S.error # NoError THEN S
    ELSE IF S.parent[o] = Null THEN UpdateUnderTemp(S, o)
    ELSE updateTransform(S, o)

\* The transform refresh of toGlobal and toLocal.
PostUpdate(S, o) == OwnUpdate(recursivePostUpdateTransform(S, o), o)

\* return this.worldTransform.apply(position, point)
ReturnApplied(S, o, pos) ==
    IF S.error # NoError THEN S
    ELSE IF S.transform[o] = Null THEN Throw(S, ErrTypeError)
    ELSE [S EXCEPT !.returned = apply(WorldTransformOf(S, o), pos)]

toGlobal(S, o, pos, skipUpdate) ==
    ReturnApplied(IF skipUpdate THEN S ELSE PostUpdate(S, o), o, pos)

\* return this.worldTransform.applyInverse(position, point)
ReturnInverse(S, o, pos) ==
    IF S.error # NoError THEN S
    ELSE IF S.transform[o] = Null THEN Throw(S, ErrTypeError)
    ELSE [S EXCEPT !.returned = applyInverse(WorldTransformOf(S, o), pos)]

\* toLocal after `position = from.toGlobal(position, point, skipUpdate)` left
\* the scene F.
ToLocalFrom(F, o, skipUpdate) ==
    ReturnInverse(IF skipUpdate THEN [F EXCEPT !.returned = Undefined]
                  ELSE PostUpdate([F EXCEPT !.returned = Undefined], o),
                  o, F.returned)

toLocal(S, o, pos, from, skipUpdate) ==
    IF from = Null
    THEN ReturnInverse(IF skipUpdate THEN S ELSE PostUpdate(S, o), o, pos)
    ELSE ToLocalFrom(toGlobal(S, from, pos, skipUpdate), o, skipUpdate)

\* The scenes the operations start from: a chain R <- C <- G of attached
\* nodes, and the same with G detached.
Scenes ==
    {[o \in Objects |-> CASE o = "C" -> "R" [] o = "G" -> g [] OTHER -> Null] :
        g \in {"C", Null}}

\* Every object as its constructor leaves it, the nodes attached as in `scene`.
Constructed(scene) ==
    /\ parent = scene
    /\ tempDisplayObjectParent = [o \in Objects |-> Null]
    /\ transform = [o \in Objects |-> o]
    /\ position = [t \in Objects |-> Point(0, 0)]
    /\ worldTransform = [t \in Objects |-> Matrix(1, 0, 0, 1, 0, 0)]
    /\ alpha = [o \in Objects |-> Rat(1, 1)]
    /\ worldAlpha = [o \in Objects |-> Rat(1, 1)]
    /\ boundsID = [o \in Objects |-> 0]
    /\ lastBoundsID = [o \in Objects |-> -1]
    /\ bounds = [o \in Objects |-> EmptyBounds]
    /\ visible = [o \in Objects |-> TRUE]
    /\ renderable = [o \in Objects |-> TRUE]
    /\ zIndex = [o \in Objects |-> 0]
    /\ sortDirty = [o \in Objects |-> FALSE]
    /\ rotation = [t \in Objects |-> 0]
    /\ scale = [t \in Objects |-> Point(1, 1)]
    /\ skew = [t \in Objects |-> Point(0, 0)]
    /\ pivot = [t \in Objects |-> Point(0, 0)]
    /\ mask = [o \in Objects |-> Null]
    /\ isMask = [o \in Objects |-> FALSE]
    /\ destroyed = [o \in Objects |-> FALSE]
    /\ pixiChanged = FALSE
    /\ constructed = Nodes
    /\ lastOp = [op |-> "none"]
    /\ nOps = 0

\* ----------------------------------------------------------------- actions
RegistryInit ==
    /\ addHandlers = [t \in ExtensionType |-> NoHandler]
    /\ removeHandlers = [t \in ExtensionType |-> NoHandler]
    /\ queue = [t \in ExtensionType |-> <<>>]
    /\ targetMap = [t \in ExtensionType |-> EmptyMap]
    /\ targetNamedList = [t \in ExtensionType |-> <<>>]
    /\ targetList = [t \in ExtensionType |-> <<>>]
    /\ calls = <<>>
    /\ added = [t \in ExtensionType |-> <<>>]
    /\ error = NoError
    /\ lastCall = [method |-> "none"]
    /\ nCalls = 0

\* The registry as the module leaves it, beside a scene nothing operates on.
Init == RegistryInit /\ Constructed([o \in Objects |-> Null])

\* The registry after a call.
Becomes(R) ==
    /\ addHandlers' = R.addHandlers
    /\ removeHandlers' = R.removeHandlers
    /\ queue' = R.queue
    /\ targetMap' = R.targetMap
    /\ targetNamedList' = R.targetNamedList
    /\ targetList' = R.targetList
    /\ calls' = R.calls
    /\ error' = R.error
    /\ UNCHANGED sceneVars

\* The records of a completed add call that declare the type, in call order.
Declaring(exts, type) ==
    SelectSeq(exts, LAMBDA e : \E i \in 1..Len(e.type.items) : e.type.items[i] = type)

AddFrom(argumentLists) ==
    /\ nCalls < MaxCalls
    /\ \E extensions \in argumentLists :
         LET R == add(Registry("add"), extensions)
             arrived(t) == Declaring(NormalizeAll(extensions).exts, t)
         IN /\ Becomes(R)
            /\ added' = IF R.error = NoError
                        THEN [t \in ExtensionType |->
                                added[t] \o [i \in 1..Len(arrived(t)) |->
                                               [ext |-> arrived(t)[i],
                                                handled |-> addHandlers[t] # NoHandler]]]
                        ELSE added
            /\ lastCall' = [method |-> "add", extensions |-> extensions]
    /\ nCalls' = nCalls + 1

Add == AddFrom(AddCalls)

AddRawRef == AddFrom(RawRefCalls)

Remove ==
    /\ nCalls < MaxCalls
    /\ \E extensions \in RemoveCalls :
         /\ Becomes(remove(Registry("remove"), extensions))
         /\ lastCall' = [method |-> "remove", extensions |-> extensions]
    /\ nCalls' = nCalls + 1
    /\ UNCHANGED added

Handle ==
    /\ nCalls < MaxCalls
    /\ \E type \in ExtensionType :
         /\ Becomes(handle(Registry("handle"), type, [kind |-> "handle"]))
         /\ lastCall' = [method |-> "handle", type |-> type]
    /\ nCalls' = nCalls + 1
    /\ UNCHANGED added

HandleByMap ==
    /\ nCalls < MaxCalls
    /\ \E type \in ExtensionType :
         /\ Becomes(handleByMap(Registry("handle"), type))
         /\ lastCall' = [method |-> "handleByMap", type |-> type]
    /\ nCalls' = nCalls + 1
    /\ UNCHANGED added

HandleByNamedList ==
    /\ nCalls < MaxCalls
    /\ \E type \in ExtensionType, defaultPriority \in DefaultPriorities :
         /\ Becomes(handleByNamedList(Registry("handle"), type, defaultPriority))
         /\ lastCall' = [method |-> "handleByNamedList", type |-> type]
    /\ nCalls' = nCalls + 1
    /\ UNCHANGED added

HandleByList ==
    /\ nCalls < MaxCalls
    /\ \E type \in ExtensionType, defaultPriority \in DefaultPriorities :
         /\ Becomes(handleByList(Registry("handle"), type, defaultPriority))
         /\ lastCall' = [method |-> "handleByList", type |-> type]
    /\ nCalls' = nCalls + 1
    /\ UNCHANGED added

Next ==
    \/ Add
    \/ Remove
    \/ Handle
    \/ HandleByMap
    \/ HandleByNamedList
    \/ HandleByList

Spec == Init /\ [][Next]_vars

\* The registry when descriptors for classes without metadata are added too.
RawRefNext ==
    \/ Next
    \/ AddRawRef

RawRefSpec == Init /\ [][RawRefNext]_vars

\* ------------------------------------------------- display object actions
SceneInit == RegistryInit /\ \E scene \in Scenes : Constructed(scene)

\* The last operation was `op` on the node and returned.
Returned(op, o) ==
    /\ lastOp.op = op
    /\ lastOp.node = o
    /\ lastOp.outcome.error = NoError

\* The scene after an operation.
SceneBecomes(S) ==
    /\ parent' = S.parent
    /\ tempDisplayObjectParent' = S.tempDisplayObjectParent
    /\ transform' = S.transform
    /\ position' = S.position
    /\ worldTransform' = S.worldTransform
    /\ alpha' = S.alpha
    /\ worldAlpha' = S.worldAlpha
    /\ boundsID' = S.boundsID
    /\ lastBoundsID' = S.lastBoundsID
    /\ bounds' = S.bounds
    /\ visible' = S.visible
    /\ renderable' = S.renderable
    /\ zIndex' = S.zIndex
    /\ sortDirty' = S.sortDirty
    /\ rotation' = S.rotation
    /\ scale' = S.scale
    /\ skew' = S.skew
    /\ pivot' = S.pivot
    /\ mask' = S.mask
    /\ isMask' = S.isMask
    /\ destroyed' = S.destroyed
    /\ pixiChanged' = S.pixiChanged
    /\ constructed' = S.constructed
    /\ nOps' = nOps + 1
    /\ UNCHANGED registryVars

\* What the last operation did: its error, the number of calculateBounds
\* calls it made and the value it returned.
Outcome(S) ==
    [error |-> S.error, calculated |-> S.calculated, returned |-> S.returned]

SetAlpha ==
    /\ nOps < MaxOps
    /\ \E o \in Nodes, value \in Alphas :
         LET S == setAlpha(Scene, o, value)
         IN /\ SceneBecomes(S)
            /\ lastOp' = [op |-> "alpha", node |-> o, outcome |-> Outcome(S)]

SetX ==
    /\ nOps < MaxOps
    /\ \E o \in Nodes, value \in Xs :
         LET S == setX(Scene, o, value)
         IN /\ SceneBecomes(S)
            /\ lastOp' = [op |-> "x", node |-> o, outcome |-> Outcome(S)]

SetY ==
    /\ nOps < MaxOps
    /\ \E o \in Nodes, value \in Ys :
         LET S == setY(Scene, o, value)
         IN /\ SceneBecomes(S)
            /\ lastOp' = [op |-> "y", node |-> o, outcome |-> Outcome(S)]

UpdateTransform ==
    /\ nOps < MaxOps
    /\ \E o \in Nodes :
         LET S == updateTransform(Scene, o)
         IN /\ SceneBecomes(S)
            /\ lastOp' = [op |-> "updateTransform", node |-> o,
                          outcome |-> Outcome(S)]

GetBounds ==
    /\ nOps < MaxOps
    /\ \E o \in Nodes, skipUpdate \in BOOLEAN :
         \E hook \in Hooks(o) :
            LET S == getBounds(Scene, o, skipUpdate, hook)
            IN /\ SceneBecomes(S)
               /\ lastOp' = [op |-> "getBounds", node |-> o,
                             skipUpdate |-> skipUpdate, outcome |-> Outcome(S),
                             valid |-> lastBoundsID[o] = boundsID[o],
                             again |-> Returned("getBounds", o)
                                         /\ lastOp.skipUpdate = skipUpdate]

GetLocalBounds ==
    /\ nOps < MaxOps
    /\ \E o \in Nodes :
         \E hook \in Hooks(o) :
            LET S == getLocalBounds(Scene, o, hook)
            IN /\ SceneBecomes(S)
               /\ lastOp' = [op |-> "getLocalBounds", node |-> o,
                             outcome |-> Outcome(S)]

ToGlobal ==
    /\ nOps < MaxOps
    /\ \E o \in Nodes, pos \in Points, skipUpdate \in BOOLEAN :
         LET S == toGlobal(Scene, o, pos, skipUpdate)
         IN /\ SceneBecomes(S)
            /\ lastOp' = [op |-> "toGlobal", node |-> o, position |-> pos,
                          skipUpdate |-> skipUpdate, outcome |-> Outcome(S)]

ToLocal ==
    /\ nOps < MaxOps
    /\ \E o \in Nodes, pos \in Points, from \in Froms, skipUpdate \in BOOLEAN :
         LET S == toLocal(Scene, o, pos, from, skipUpdate)
         IN /\ SceneBecomes(S)
            /\ lastOp' = [op |-> "toLocal", node |-> o, position |-> pos,
                          from |-> from, skipUpdate |-> skipUpdate,
                          outcome |-> Outcome(S)]

SceneNext ==
    \/ SetAlpha
    \/ SetX
    \/ SetY
    \/ UpdateTransform
    \/ GetBounds
    \/ GetLocalBounds
    \/ ToGlobal
    \/ ToLocal

SceneSpec == SceneInit /\ [][SceneNext]_vars

\* ---------------------------------------------------- life cycle and masks
\* The values the remaining setters and setParent are called with. A
\* Transform assigned is null, as destroy assigns it, or the one the node was
\* constructed with; the argument of setParent is null, the Container R or
\* the plain display object G.
Booleans == BOOLEAN
ZIndexes == {0, 1}
Rotations == {0, Infinity}
Masks(o) == {Null} \cup (Nodes \ {o})
Transforms(o) == {Null, o}
Parents(o) == {Null, "R", "G"} \ {o}

SetVisible ==
    /\ nOps < MaxOps
    /\ \E o \in Nodes, value \in Booleans :
         LET S == setVisible(Scene, o, value)
         IN /\ SceneBecomes(S)
            /\ lastOp' = [op |-> "visible", node |-> o, outcome |-> Outcome(S)]

SetRenderable ==
    /\ nOps < MaxOps
    /\ \E o \in Nodes, value \in Booleans :
         LET S == setRenderable(Scene, o, value)
         IN /\ SceneBecomes(S)
            /\ lastOp' = [op |-> "renderable", node |-> o, outcome |-> Outcome(S)]

SetZIndex ==
    /\ nOps < MaxOps
    /\ \E o \in Nodes, value \in ZIndexes :
         LET S == setZIndex(Scene, o, value)
         IN /\ SceneBecomes(S)
            /\ lastOp' = [op |-> "zIndex", node |-> o, outcome |-> Outcome(S)]

SetRotation ==
    /\ nOps < MaxOps
    /\ \E o \in Nodes, value \in Rotations :
         LET S == setRotation(Scene, o, value)
         IN /\ SceneBecomes(S)
            /\ lastOp' = [op |-> "rotation", node |-> o, outcome |-> Outcome(S)]

\* `old` is the mask the node had, `holders` the other nodes whose mask the
\* value already is.
SetMask ==
    /\ nOps < MaxOps
    /\ \E o \in Nodes :
         \E value \in Masks(o) :
            LET S == setMask(Scene, o, value)
            IN /\ SceneBecomes(S)
               /\ lastOp' = [op |-> "mask", node |-> o, value |-> value,
                             old |-> mask[o],
                             holders |-> {n \in Nodes \ {o} :
                                            value # Null /\ mask[n] = value},
                             outcome |-> Outcome(S)]

Destroy ==
    /\ nOps < MaxOps
    /\ \E o \in Nodes :
         LET S == destroy(Scene, o)
         IN /\ SceneBecomes(S)
            /\ lastOp' = [op |-> "destroy", node |-> o, outcome |-> Outcome(S)]

AssignTransform ==
    /\ nOps < MaxOps
    /\ \E o \in Nodes :
         \E value \in Transforms(o) :
            LET S == transformSetter(Scene, o, value)
            IN /\ SceneBecomes(S)
               /\ lastOp' = [op |-> "transform", node |-> o,
                             outcome |-> Outcome(S)]

SetParent ==
    /\ nOps < MaxOps
    /\ \E o \in Nodes :
         \E container \in Parents(o) :
            LET S == setParent(Scene, o, container)
            IN /\ SceneBecomes(S)
               /\ lastOp' = [op |-> "setParent", node |-> o,
                             outcome |-> Outcome(S)]

NodeNext ==
    \/ SetAlpha
    \/ SetX
    \/ SetY
    \/ SetVisible
    \/ SetRenderable
    \/ SetZIndex
    \/ SetRotation
    \/ SetMask
    \/ AssignTransform
    \/ SetParent
    \/ Destroy

NodeSpec == SceneInit /\ [][NodeNext]_vars

\* The values the remaining members that assign the Transform are called
\* with; the argument lists of setTransform are (10, 5),
\* (10, 5, -1, -1, 0, 0, 0, 1, 1) and (0, 0, 0, 0), defaults filled in.
Positions == {Point(0, 0), Point(10, 5)}
Scales == {Point(1, 1), Point(0 - 1, 0 - 1)}
Pivots == {Point(0, 0), Point(1, 1)}
Skews == {Point(0, 0)}
Angles == {0}
TransformArguments ==
    {<<10, 5, 1, 1, 0, 0, 0, 0, 0>>, <<10, 5, 0 - 1, 0 - 1, 0, 0, 0, 1, 1>>,
     <<0, 0, 0, 0, 0, 0, 0, 0, 0>>}

SetPosition ==
    /\ nOps < MaxOps
    /\ \E o \in Nodes, value \in Positions :
         LET S == setPosition(Scene, o, value)
         IN /\ SceneBecomes(S)
            /\ lastOp' = [op |-> "position", node |-> o, outcome |-> Outcome(S)]

SetScale ==
    /\ nOps < MaxOps
    /\ \E o \in Nodes, value \in Scales :
         LET S == setScale(Scene, o, value)
         IN /\ SceneBecomes(S)
            /\ lastOp' = [op |-> "scale", node |-> o, outcome |-> Outcome(S)]

SetPivot ==
    /\ nOps < MaxOps
    /\ \E o \in Nodes, value \in Pivots :
         LET S == setPivot(Scene, o, value)
         IN /\ SceneBecomes(S)
            /\ lastOp' = [op |-> "pivot", node |-> o, outcome |-> Outcome(S)]

SetSkew ==
    /\ nOps < MaxOps
    /\ \E o \in Nodes, value \in Skews :
         LET S == setSkew(Scene, o, value)
         IN /\ SceneBecomes(S)
            /\ lastOp' = [op |-> "skew", node |-> o, outcome |-> Outcome(S)]

SetAngle ==
    /\ nOps < MaxOps
    /\ \E o \in Nodes, value \in Angles :
         LET S == setAngle(Scene, o, value)
         IN /\ SceneBecomes(S)
            /\ lastOp' = [op |-> "angle", node |-> o, outcome |-> Outcome(S)]

SetTransform ==
    /\ nOps < MaxOps
    /\ \E o \in Nodes, arguments \in TransformArguments :
         LET S == setTransform(Scene, o, arguments)
         IN /\ SceneBecomes(S)
            /\ lastOp' = [op |-> "setTransform", node |-> o,
                          outcome |-> Outcome(S)]

\* Every operation on the display objects.
DisplayNext ==
    \/ NodeNext
    \/ SetPosition
    \/ SetScale
    \/ SetPivot
    \/ SetSkew
    \/ SetAngle
    \/ SetTransform
    \/ UpdateTransform
    \/ GetBounds
    \/ GetLocalBounds
    \/ ToGlobal
    \/ ToLocal

\* The chain R <- C <- G of attached nodes, as constructed.
DisplayInit ==
    /\ RegistryInit
    /\ Constructed([o \in Objects |->
                      CASE o = "C" -> "R" [] o = "G" -> "C" [] OTHER -> Null])

DisplaySpec == DisplayInit /\ [][DisplayNext]_vars

TypeOK ==
    /\ \A t \in ExtensionType :
         /\ addHandlers[t] \in Handlers \cup {NoHandler}
         /\ removeHandlers[t] \in Handlers \cup {NoHandler}
    /\ nCalls \in 0..MaxCalls

\* ------------------------------------------------------- history operators
Range(seq) == {seq[i] : i \in 1..Len(seq)}

Count(seq, e) == Cardinality({i \in 1..Len(seq) : seq[i] = e})

\* The invocations of the type's add-handler, in order.
OnAddCalls(type) ==
    SelectSeq(calls, LAMBDA c : c.fn = "onAdd" /\ c.type = type)

\* The records passed to the type's add-handler, in order.
Delivered(type) == [i \in 1..Len(OnAddCalls(type)) |-> OnAddCalls(type)[i].ext]

\* The records declared for the type by completed add calls, in order.
Arrived(type) == [i \in 1..Len(added[type]) |-> added[type][i].ext]

Handled(type) == addHandlers[type] # NoHandler

HandleMethods == {"handle", "handleByMap", "handleByNamedList", "handleByList"}

\* The invocations made by the call that led to the primed state.
NewCalls == SubSeq(calls', Len(calls) + 1, Len(calls'))

\* The records of the call that led to the primed state.
CallExts == NormalizeAll(lastCall'.extensions).exts

\* ----------------------------------------------------------------- claims

\* C1: the records passed to a type's onAdd are the records added for the
\* type, in the order they were added: the queued ones first, in arrival
\* order, then the ones added after installation; until a handler is
\* installed the pending queue holds them in arrival order.
C1_DeliveryOrder ==
    \A t \in ExtensionType :
        IF Handled(t)
        THEN Delivered(t) = Arrived(t)
        ELSE Delivered(t) = <<>> /\ queue[t] = Arrived(t)

\* Two different records were drained by handle and a third one was
\* delivered by a later add.
C1_Witness ==
    \E t \in ExtensionType :
        LET d == OnAddCalls(t)
        IN /\ Len(d) >= 3
           /\ d[1].via = "handle" /\ d[2].via = "handle"
           /\ d[1].ext # d[2].ext
           /\ d[Len(d)].via = "add"

\* C2: every record added for a type is passed to the type's onAdd exactly
\* once when the type has a handler (by the add call it arrived in, or by
\* the handle call that came after it), and waits exactly once in the
\* queue when it has none; nothing else is delivered.
C2_ExactlyOnce ==
    \A t \in ExtensionType :
        /\ \A e \in Range(Arrived(t)) :
               IF Handled(t)
               THEN /\ Count(Delivered(t), e) = Count(Arrived(t), e)
                    /\ Count(queue[t], e) = 0
               ELSE /\ Count(queue[t], e) = Count(Arrived(t), e)
                    /\ Count(Delivered(t), e) = 0
        /\ Range(Delivered(t)) \cup Range(queue[t]) \subseteq Range(Arrived(t))
        /\ Handled(t) =>
               \A a \in Range(added[t]) :
                   Count(OnAddCalls(t), [fn |-> "onAdd", type |-> t, ext |-> a.ext,
                                         via |-> IF a.handled THEN "add"
                                                 ELSE "handle"])
                     = Count(added[t], a)

\* A record that arrived before the handler and one that arrived after it
\* have both been delivered.
C2_Witness ==
    \E t \in ExtensionType :
        /\ \E c \in Range(OnAddCalls(t)) : c.via = "handle"
        /\ \E c \in Range(OnAddCalls(t)) : c.via = "add"
        /\ lastCall.method = "add"

\* C3: a completed add call acts per declared type: for a type with an
\* add-handler, the handler is invoked during the call with each record
\* declaring the type and the type's queue is left alone; for a type with
\* none, the records are appended to the end of its queue and no handler is
\* invoked for it.
C3_AddPerType ==
    [][(lastCall'.method = "add" /\ error' = NoError) =>
         \A t \in ExtensionType :
             LET invoked == SelectSeq(NewCalls, LAMBDA c : c.type = t)
             IN IF Handled(t)
                THEN /\ queue'[t] = queue[t]
                     /\ [i \in 1..Len(invoked) |-> invoked[i].ext]
                            = Declaring(CallExts, t)
                     /\ \A c \in Range(invoked) : c.fn = "onAdd"
                ELSE /\ queue'[t] = queue[t] \o Declaring(CallExts, t)
                     /\ invoked = <<>>]_vars

\* One add call delivered a record to the handled type it declares and
\* queued it behind an earlier record for the unhandled type it declares.
C3_Witness ==
    /\ lastCall.method = "add"
    /\ error = NoError
    /\ \E t, u \in ExtensionType :
          /\ Handled(t) /\ ~Handled(u)
          /\ Len(queue[u]) >= 2
          /\ calls # <<>>
          /\ calls[Len(calls)].via = "add"
          /\ calls[Len(calls)].type = t
          /\ Count(Arrived(t), calls[Len(calls)].ext) = 1
          /\ calls[Len(calls)].ext = queue[u][Len(queue[u])]

\* C4: installing handlers for a type that already has handlers, through
\* handle or any handleBy* method, throws the already-has-a-handler error,
\* keeps the installed handlers, invokes no handler and changes nothing else
\* in the registry.
C4_SecondHandleRejected ==
    [][(lastCall'.method \in HandleMethods
         /\ (addHandlers[lastCall'.type] # NoHandler
             \/ removeHandlers[lastCall'.type] # NoHandler)) =>
         /\ error' = ErrAlreadyHandled
         /\ UNCHANGED <<addHandlers, removeHandlers, queue, targetMap,
                        targetNamedList, targetList, calls>>]_vars

\* handleByList was refused for a type that handleByMap owns and whose map
\* has an entry.
C4_Witness ==
    /\ lastCall.method = "handleByList"
    /\ error = ErrAlreadyHandled
    /\ addHandlers[lastCall.type].kind = "handleByMap"
    /\ removeHandlers[lastCall.type].kind = "handleByMap"
    /\ DOMAIN targetMap[lastCall.type] # {}

\* --------------------------------------------- histories of the collections
Kind(type) == addHandlers[type].kind

\* The invocations of the type's handlers about a ref / about a name.
AboutRef(type, ref) == {i \in 1..Len(calls) : calls[i].type = type /\ calls[i].ext.ref = ref}

AboutName(type, name) == {i \in 1..Len(calls) : calls[i].type = type /\ calls[i].ext.name = name}

Max(S) == IF S = {} THEN 0 ELSE CHOOSE m \in S : \A n \in S : n <= m

Min(S) == CHOOSE m \in S : \A n \in S : m <= n

\* The position in `calls` of the onAdd that put the entry into the target
\* list: the first one about it since the last onRemove about it.
InsertedAt(about) ==
    LET removed == Max({i \in about : calls[i].fn = "onRemove"})
    IN Min({i \in about : calls[i].fn = "onAdd" /\ i > removed})

\* The priority of the record that put the entry into the target list.
RecordPriority(type, about) ==
    LET priority == calls[InsertedAt(about)].ext.priority
    IN IF priority.typeof = "undefined" THEN addHandlers[type].defaultPriority
       ELSE priority.value

\* The position in `calls` of the first onAdd about the entry.
FirstAdded(about) == Min({i \in about : calls[i].fn = "onAdd"})

\* C5: a handleByList target is ordered by descending priority, the priority
\* of an entry being that of the record that was added (defaultPriority when
\* the record specifies none); entries of equal priority are in the order in
\* which they were first added.
C5_ListOrderedByPriority ==
    \A t \in ExtensionType :
        Kind(t) = "handleByList" =>
            \A i, j \in 1..Len(targetList[t]) :
                i < j =>
                    \/ RecordPriority(t, AboutRef(t, targetList[t][i]))
                         > RecordPriority(t, AboutRef(t, targetList[t][j]))
                    \/ /\ RecordPriority(t, AboutRef(t, targetList[t][i]))
                            = RecordPriority(t, AboutRef(t, targetList[t][j]))
                       /\ FirstAdded(AboutRef(t, targetList[t][i]))
                            < FirstAdded(AboutRef(t, targetList[t][j]))

\* C6: the entries of a handleByList / handleByNamedList target are ordered
\* by the priority of the record that was added (defaultPriority when the
\* record specifies none).
C6_OrderedByRecordPriority ==
    \A t \in ExtensionType :
        /\ Kind(t) = "handleByList" =>
              \A i, j \in 1..Len(targetList[t]) :
                  i < j =>
                      RecordPriority(t, AboutRef(t, targetList[t][i]))
                        >= RecordPriority(t, AboutRef(t, targetList[t][j]))
        /\ Kind(t) = "handleByNamedList" =>
              \A i, j \in 1..Len(targetNamedList[t]) :
                  i < j =>
                      RecordPriority(t, AboutName(t, targetNamedList[t][i].name))
                        >= RecordPriority(t, AboutName(t, targetNamedList[t][j].name))

\* C7: a handleByMap target maps a name to the ref of the last record of
\* that name passed to onAdd, unless a record of that name was passed to
\* onRemove after it; then the name is not a key.
C7_MapLastWins ==
    \A t \in ExtensionType :
        Kind(t) = "handleByMap" =>
            \A n \in DOMAIN targetMap[t]
                     \cup {KeyOf(calls[i].ext.name) : i \in 1..Len(calls)} :
                LET about == SelectSeq(calls, LAMBDA c :
                                 c.type = t /\ KeyOf(c.ext.name) = n)
                IN IF about = <<>> \/ about[Len(about)].fn = "onRemove"
                   THEN n \notin DOMAIN targetMap[t]
                   ELSE /\ n \in DOMAIN targetMap[t]
                        /\ targetMap[t][n] = about[Len(about)].ext.ref

\* Two records of one name and different refs were added after
\* installation; the map holds the ref of the later one.
C7_Witness ==
    \E t \in ExtensionType :
        /\ Kind(t) = "handleByMap"
        /\ \E i, j \in 1..Len(calls) :
              /\ i < j
              /\ calls[i].type = t /\ calls[j].type = t
              /\ calls[i].fn = "onAdd" /\ calls[j].fn = "onAdd"
              /\ calls[i].via = "add" /\ calls[j].via = "add"
              /\ calls[i].ext.name = calls[j].ext.name
              /\ calls[i].ext.ref # calls[j].ext.ref
              /\ targetMap[t][KeyOf(calls[j].ext.name)] = calls[j].ext.ref
              /\ \A k \in 1..Len(calls) : calls[k].fn = "onAdd"

\* The invocation made by the call that led to the primed state, when it
\* made exactly one.
OneNewCall == Len(calls') = Len(calls) + 1

NewCall == calls'[Len(calls')]

\* C8: no two entries of a handleByNamedList target have the same name;
\* onAdd of a record whose name is present leaves the list as it is, onAdd
\* of a new name keeps every entry and adds one for the record; onRemove
\* deletes the entry of the record's name and nothing else.
C8_NamedListUnique ==
    /\ [](\A t \in ExtensionType :
            \A i, j \in 1..Len(targetNamedList[t]) :
                targetNamedList[t][i].name = targetNamedList[t][j].name => i = j)
    /\ [][\A t \in ExtensionType :
            (addHandlers'[t].kind = "handleByNamedList"
             /\ OneNewCall /\ NewCall.type = t) =>
                LET old == targetNamedList[t]
                    new == targetNamedList'[t]
                    name == NewCall.ext.name
                    present == \E i \in 1..Len(old) : old[i].name = name
                IN IF NewCall.fn = "onAdd"
                   THEN IF present THEN new = old
                        ELSE Range(new) = Range(old)
                               \cup {[name |-> name, value |-> NewCall.ext.ref]}
                   ELSE new = SelectSeq(old, LAMBDA e : e.name # name)]_vars

\* A record was added under a name the list already holds with another
\* value; the list kept its entry.
C8_Witness ==
    \E t \in ExtensionType :
        /\ Kind(t) = "handleByNamedList"
        /\ lastCall.method = "add"
        /\ calls # <<>>
        /\ calls[Len(calls)].type = t
        /\ calls[Len(calls)].via = "add"
        /\ \E i \in 1..Len(targetNamedList[t]) :
              /\ targetNamedList[t][i].name = calls[Len(calls)].ext.name
              /\ targetNamedList[t][i].value # calls[Len(calls)].ext.ref

\* C9: no ref occurs twice in a handleByList target; onAdd of a record
\* whose ref is present leaves the list as it is, onAdd of a new ref keeps
\* every entry and adds the ref; onRemove deletes the entry identical to
\* the record's ref and nothing else.
C9_ListUnique ==
    /\ [](\A t \in ExtensionType :
            \A i, j \in 1..Len(targetList[t]) :
                targetList[t][i] = targetList[t][j] => i = j)
    /\ [][\A t \in ExtensionType :
            (addHandlers'[t].kind = "handleByList"
             /\ OneNewCall /\ NewCall.type = t) =>
                LET old == targetList[t]
                    new == targetList'[t]
                    ref == NewCall.ext.ref
                IN IF NewCall.fn = "onAdd"
                   THEN IF ref \in Range(old) THEN new = old
                        ELSE Range(new) = Range(old) \cup {ref}
                   ELSE new = SelectSeq(old, LAMBDA e : e # ref)]_vars

\* A ref already in the list was added again through a different record;
\* the list holds it once.
C9_Witness ==
    \E t \in ExtensionType :
        /\ Kind(t) = "handleByList"
        /\ \E i, j \in 1..Len(calls) :
              /\ i < j
              /\ calls[i].type = t /\ calls[j].type = t
              /\ calls[i].ext.ref = calls[j].ext.ref
              /\ calls[i].ext # calls[j].ext
              /\ calls[j].ext.ref \in Range(targetList[t])
        /\ \A k \in 1..Len(calls) : calls[k].fn = "onAdd"
        /\ Len(targetList[t]) >= 2

\* C10: a completed remove call leaves the handlers and every pending queue
\* as they are and invokes, for each record and each type the record
\* declares, the type's remove-handler once with the record if one is
\* installed, and nothing if none is; a later successful handle passes
\* every record still queued for the type to onAdd.
C10_RemoveFrame ==
    [][/\ (lastCall'.method = "remove" /\ error' = NoError) =>
            /\ UNCHANGED <<addHandlers, removeHandlers, queue>>
            /\ \A c \in Range(NewCalls) : c.fn = "onRemove" /\ c.via = "remove"
            /\ \A t \in ExtensionType :
                   \A e \in Range(CallExts) :
                       Count(NewCalls, [fn |-> "onRemove", type |-> t, ext |-> e,
                                        via |-> "remove"])
                         = IF removeHandlers[t] # NoHandler
                              /\ t \in Range(e.type.items)
                           THEN Count(CallExts, e)
                           ELSE 0
       /\ (lastCall'.method \in HandleMethods /\ error' = NoError) =>
            [i \in 1..Len(NewCalls) |-> NewCalls[i].ext] = queue[lastCall'.type]
     ]_vars

\* remove was called for a record that is queued for a type without a
\* remove-handler: the record is still queued.
C10_Witness ==
    /\ lastCall.method = "remove"
    /\ error = NoError
    /\ \E t \in ExtensionType :
          /\ removeHandlers[t] = NoHandler
          /\ \E e \in Range(NormalizeAll(lastCall.extensions).exts) :
                /\ t \in Range(e.type.items)
                /\ e \in Range(queue[t])

\* ------------------------------------------------- claims on normalization

\* The items of the call that led to the state, each with what
\* normalizeExtension makes of it.
LastItems == IF lastCall.method \in {"add", "remove"} THEN lastCall.extensions ELSE <<>>

\* C11: an add call with an item that normalizeExtension rejects (a
\* primitive, or a class without metadata) throws and registers nothing:
\* no handler is invoked and no queue grows, also for the well-formed
\* items listed before the rejected one.
C11_AddAtomic ==
    [][(lastCall'.method = "add"
         /\ \E i \in 1..Len(lastCall'.extensions) :
                normalizeExtension(lastCall'.extensions[i]).error # NoError) =>
         /\ error' \in {ErrNoExtension, ErrInvalidType}
         /\ UNCHANGED <<addHandlers, removeHandlers, queue, targetMap,
                        targetNamedList, targetList, calls>>]_vars

\* add(PluginB, 7) threw while 'application', which PluginB declares, had a
\* handler: the handler's list is still empty.
C11_Witness ==
    /\ lastCall.method = "add"
    /\ lastCall.extensions = <<PluginB, Primitive>>
    /\ error = ErrInvalidType
    /\ Kind("application") = "handleByList"
    /\ targetList["application"] = <<>>
    /\ calls = <<>>

\* The type the caller supplied: the class's metadata (a bare identifier,
\* or the type of its details) or the descriptor's type.
SuppliedType(item) ==
    IF item.typeof = "function"
    THEN IF item.extension.typeof = "string" THEN item.extension
         ELSE item.extension.type
    ELSE item.type

\* C12 as stated: every record normalization returns has a non-empty list
\* of types.
C12_TypesNonEmpty ==
    \A i \in 1..Len(LastItems) :
        LET n == normalizeExtension(LastItems[i])
        IN n.error = NoError =>
              /\ Get(n.ext.type, "isArray") = TRUE
              /\ Len(n.ext.type.items) >= 1

\* C12 as amended: every record normalization returns has a list of types:
\* the one-element list of a single identifier, or the list as supplied
\* (empty when the caller supplied the empty list); every record that
\* reached a handler or a queue declares the type it was registered for.
C12_TypesIsList ==
    /\ \A i \in 1..Len(LastItems) :
          LET n == normalizeExtension(LastItems[i])
          IN n.error = NoError =>
                /\ Get(n.ext.type, "isArray") = TRUE
                /\ n.ext.type.items
                     = IF SuppliedType(LastItems[i]).typeof = "string"
                       THEN <<SuppliedType(LastItems[i]).value>>
                       ELSE SuppliedType(LastItems[i]).items
    /\ \A t \in ExtensionType :
          /\ \A e \in Range(queue[t]) : t \in Range(e.type.items)
          /\ \A c \in Range(calls) : c.type \in Range(c.ext.type.items)

\* A class with a single identifier in its details, a class whose metadata
\* is a bare identifier and a class with a list were added and are queued.
C12_Witness ==
    /\ lastCall.method = "add"
    /\ lastCall.extensions = <<PluginA, PluginB, PluginC>>
    /\ error = NoError
    /\ Len(queue["application"]) >= 3
    /\ \E e \in Range(queue["application"]) :
          e.ref = PluginB /\ e.type = Arr(<<"application">>)

\* C13: extensions.add(NegationBlend) succeeds and registers a record with
\* ref NegationBlend and name 'negation' for blend-mode, delivered to the
\* add-handler if there is one and queued otherwise.
C13_NegationBlendRegisters ==
    (lastCall.method = "add" /\ lastCall.extensions = <<NegationBlend>>) =>
        /\ error = NoError
        /\ \E e \in Range(Delivered("blend-mode")) \cup Range(queue["blend-mode"]) :
              e.ref = NegationBlend /\ e.name = Str("negation")
\* ------------------------------------------------- display object history
\* C14: for a node N with a parent P, a call of updateTransform on N leaves
\* N.worldAlpha equal to N.alpha times P.worldAlpha as they were at the call,
\* and N.boundsID exactly one greater than before the call.
C14_UpdateTransform ==
    [][\A o \in Nodes :
         (lastOp'.op = "updateTransform" /\ lastOp'.node = o /\ parent[o] # Null)
            => /\ lastOp'.outcome.error = NoError
               /\ worldAlpha'[o] = Times(alpha[o], worldAlpha[parent[o]])
               /\ boundsID'[o] = boundsID[o] + 1]_vars

C14_Witness ==
    /\ Returned("updateTransform", "G")
    /\ parent["G"] = "C"
    /\ alpha["G"] = Rat(1, 1)
    /\ worldAlpha["C"] = Rat(1, 2)
    /\ worldAlpha["G"] = Rat(1, 2)
    /\ boundsID["G"] = 1

\* The step is the operation `op` on the node.
Step(op, o) == lastOp'.op = op /\ lastOp'.node = o /\ nOps' = nOps + 1

\* C15: getBounds(node, skipUpdate = true) called twice with no operation in
\* between returns the same rectangle both times; the second call does not
\* invoke the bounds-computation hook and leaves lastBoundsID and boundsID as
\* the first call left them.
C15_SecondGetBoundsCached ==
    [][\A o \in Nodes :
         (/\ Returned("getBounds", o) /\ lastOp.skipUpdate
          /\ Step("getBounds", o) /\ lastOp'.skipUpdate)
            => /\ lastOp'.outcome = [error |-> NoError, calculated |-> 0,
                                     returned |-> lastOp.outcome.returned]
               /\ boundsID'[o] = boundsID[o]
               /\ lastBoundsID'[o] = lastBoundsID[o]]_vars

C15_Witness ==
    /\ Returned("getBounds", "C")
    /\ lastOp.skipUpdate
    /\ lastOp.again
    /\ lastOp.outcome.calculated = 0
    /\ lastOp.outcome.returned = [x |-> 0, y |-> 0, width |-> 1, height |-> 1]
    /\ lastBoundsID["C"] = boundsID["C"]

\* The node's cached bounds are valid.
Valid(o) == lastBoundsID[o] = boundsID[o]

Setters == {"alpha", "x", "y"}

\* C16, as claimed: once lastBoundsID = boundsID holds for a node, a getBounds
\* call on it, with either value of skipUpdate, does not invoke the
\* bounds-computation hook.
C16_NoRecomputeWhileValid ==
    [][\A o \in Nodes :
         (Valid(o) /\ Step("getBounds", o)) => lastOp'.outcome.calculated = 0]_vars

\* C16, amended: once lastBoundsID = boundsID holds for a node it keeps holding
\* until a step increments boundsID, which the setters never do; a getBounds
\* call with skipUpdate true then does not invoke the hook, while a getBounds
\* call with skipUpdate false increments boundsID itself and invokes the hook
\* once.
C16_NoRecomputeUntilUpdate ==
    [][\A o \in Nodes :
         /\ (Valid(o) /\ boundsID'[o] = boundsID[o]) => lastBoundsID'[o] = boundsID'[o]
         /\ (lastOp'.op \in Setters /\ nOps' = nOps + 1) => boundsID'[o] = boundsID[o]
         /\ (Valid(o) /\ Step("getBounds", o) /\ lastOp'.skipUpdate)
               => lastOp'.outcome.calculated = 0
         /\ (Step("getBounds", o) /\ ~lastOp'.skipUpdate)
               => /\ lastOp'.outcome.calculated = 1
                  /\ boundsID'[o] = boundsID[o] + 1]_vars

C16_Witness ==
    /\ Returned("getBounds", "G")
    /\ lastOp.skipUpdate
    /\ lastOp.valid
    /\ lastOp.outcome.calculated = 0
    /\ alpha["G"] = Rat(1, 2)
    /\ boundsID["G"] = 0

\* C17: the setters leave boundsID as it is and no step decreases it; a call
\* of updateTransform on a node increments its boundsID, which is then greater
\* than lastBoundsID; and a getBounds call on a node whose boundsID differs
\* from lastBoundsID, with either value of skipUpdate, invokes the
\* bounds-computation hook exactly once and, when it returns, ends with
\* lastBoundsID = boundsID.
C17_RecomputeAfterUpdate ==
    [][\A o \in Nodes :
         /\ boundsID'[o] >= boundsID[o]
         /\ lastBoundsID'[o] <= boundsID'[o]
         /\ (lastOp'.op \in Setters /\ nOps' = nOps + 1) => boundsID'[o] = boundsID[o]
         /\ Step("updateTransform", o)
               => /\ boundsID'[o] = boundsID[o] + 1
                  /\ boundsID'[o] > lastBoundsID'[o]
         /\ (~Valid(o) /\ Step("getBounds", o))
               => /\ lastOp'.outcome.calculated = 1
                  /\ lastOp'.outcome.error = NoError
                        => lastBoundsID'[o] = boundsID'[o]]_vars

C17_Witness ==
    /\ Returned("getBounds", "G")
    /\ lastOp.skipUpdate
    /\ ~lastOp.valid
    /\ lastOp.outcome.calculated = 1
    /\ alpha["G"] = Rat(1, 2)
    /\ worldAlpha["G"] = Rat(1, 2)
    /\ boundsID["G"] = 1
    /\ lastBoundsID["G"] = 1

\* The sentinels: the objects some object holds as its tempDisplayObjectParent.
Sentinels == {tempDisplayObjectParent[o] : o \in Objects} \ {Null}

Queries == {"getBounds", "getLocalBounds", "toGlobal", "toLocal"}

\* C18: in every state no node's parent is a sentinel, every sentinel's own
\* parent is null and no sentinel is the tempDisplayObjectParent of two
\* objects; and a getBounds, getLocalBounds, toGlobal or toLocal call on a node
\* without a parent leaves the node without a parent.
C18_SentinelInvisible ==
    /\ [](/\ \A o \in Nodes : parent[o] \notin Sentinels
          /\ \A s \in Sentinels : parent[s] = Null
          /\ \A o1, o2 \in Objects :
                (o1 # o2 /\ tempDisplayObjectParent[o1] # Null)
                   => tempDisplayObjectParent[o1] # tempDisplayObjectParent[o2])
    /\ [][\A o \in Nodes :
            (lastOp'.op \in Queries /\ lastOp'.node = o /\ nOps' = nOps + 1
             /\ parent[o] = Null)
               => parent'[o] = Null]_vars

C18_Witness ==
    /\ Returned("toGlobal", "G")
    /\ ~lastOp.skipUpdate
    /\ parent["G"] = Null
    /\ parent["R"] = Null
    /\ tempDisplayObjectParent["G"] \in Sentinels
    /\ tempDisplayObjectParent["R"] \in Sentinels
    /\ tempDisplayObjectParent["G"] # tempDisplayObjectParent["R"]

\* The sum of the current local positions of the node and all its ancestors.
RECURSIVE SumOfPositions(_)
SumOfPositions(o) ==
    LET own == position[transform[o]]
    IN IF parent[o] = Null THEN own
       ELSE Point(own.x + SumOfPositions(parent[o]).x,
                  own.y + SumOfPositions(parent[o]).y)

\* C19: a toGlobal call on a node with skipUpdate false returns the position
\* it is given plus the sum of the current local positions of the node and
\* all its ancestors.
C19_ToGlobalSumsPositions ==
    [][\A o \in Nodes :
         (Step("toGlobal", o) /\ ~lastOp'.skipUpdate)
            => lastOp'.outcome.returned
                 = Point(lastOp'.position.x + SumOfPositions(o).x,
                         lastOp'.position.y + SumOfPositions(o).y)]_vars

\* C20: a getLocalBounds call, whether it returns or the bounds-computation
\* hook raises, leaves the node's parent and transform the references they
\* were before the call.
C20_GetLocalBoundsRestores ==
    [][\A o \in Nodes :
         Step("getLocalBounds", o)
            => parent'[o] = parent[o] /\ transform'[o] = transform[o]]_vars

\* C21: a destroy call on a node that is not destroyed, whatever the global
\* changed signal is, returns and leaves the node destroyed, without a
\* parent, and with its transform, bounds and mask released.
C21_DestroyCompletes ==
    [][\A o \in Nodes :
         (Step("destroy", o) /\ ~destroyed[o])
            => /\ lastOp'.outcome.error = NoError
               /\ destroyed'[o]
               /\ parent'[o] = Null
               /\ transform'[o] = Null
               /\ bounds'[o] = NullBounds
               /\ mask'[o] = Null]_vars

\* The setters that mutate a node.
Mutations ==
    {"alpha", "visible", "renderable", "zIndex", "mask", "x", "y", "rotation"}

\* C22: a setter called on a destroyed node changes no stored state, of that
\* node or of any other.
C22_DestroyedIsImmutable ==
    [][\A o \in Nodes :
         (destroyed[o] /\ lastOp'.op \in Mutations /\ lastOp'.node = o
          /\ nOps' = nOps + 1)
            => UNCHANGED <<alpha, visible, renderable, zIndex, sortDirty, mask,
                           isMask, position, rotation, transform, parent>>]_vars

\* C23: the mask setter leaves the node's new mask, if any, with renderable
\* false and isMask true, and the mask it replaces or clears, if it is
\* another object, with renderable true and isMask false.
C23_MaskSetterTogglesMaskState ==
    [][\A o \in Nodes :
         Step("mask", o)
            => /\ mask'[o] = lastOp'.value
               /\ lastOp'.value # Null
                    => ~renderable'[lastOp'.value] /\ isMask'[lastOp'.value]
               /\ (mask[o] # Null /\ mask[o] # lastOp'.value)
                    => renderable'[mask[o]] /\ ~isMask'[mask[o]]]_vars

C23_Witness ==
    /\ Returned("mask", "R")
    /\ lastOp.old = "C"
    /\ lastOp.value = "G"
    /\ isMask["G"] /\ ~renderable["G"]
    /\ ~isMask["C"] /\ renderable["C"]

\* The step in which node a clears its mask m right after another node made
\* m its mask too.
ClearsShared(a, m) ==
    /\ lastOp.op = "mask"
    /\ lastOp.value = m
    /\ a \in lastOp.holders
    /\ Step("mask", a)
    /\ lastOp'.value = Null

\* C24: when a node and then another made the same object their mask, the
\* first node's clearing of its mask leaves the object in mask state.
C24_SharedMaskStaysEngaged ==
    [][\A a, m \in Nodes :
         ClearsShared(a, m) => isMask'[m] /\ ~renderable'[m]]_vars

\* C25: after every registry call that returned, no type has both handlers
\* and queued records, and a type has an add-handler exactly when it has a
\* remove-handler; no call removes or replaces the handlers of a type.
C25_HandlersExcludeQueue ==
    /\ [](error = NoError =>
            \A t \in ExtensionType :
               /\ ~(Handled(t) /\ queue[t] # <<>>)
               /\ (addHandlers[t] = NoHandler) = (removeHandlers[t] = NoHandler))
    /\ [][\A t \in ExtensionType :
            Handled(t) => /\ addHandlers'[t] = addHandlers[t]
                          /\ removeHandlers'[t] = removeHandlers[t]]_vars

\* C26: an add call that returns treats a record declaring several types
\* type by type, in the order the record lists them: the add-handlers of the
\* types that have one are invoked with it in that order, and the queue of
\* each type that has none receives it; a call installing handlers for a
\* type invokes handlers for that type only and leaves the queue of every
\* other type as it was.
C26_PerTypeIndependently ==
    [][/\ (lastCall'.method = "add" /\ error' = NoError) =>
            \A i \in 1..Len(CallExts) :
               LET ext == CallExts[i]
                   delivered == SelectSeq(NewCalls, LAMBDA c : c.ext = ext)
               IN Len(ext.type.items) >= 2 =>
                    /\ [j \in 1..Len(delivered) |-> delivered[j].type]
                         = SelectSeq(ext.type.items, Handled)
                    /\ \A t \in Range(ext.type.items) :
                          ~Handled(t) =>
                              Count(queue'[t], ext) = Count(queue[t], ext) + 1
       /\ lastCall'.method \in HandleMethods =>
            /\ \A c \in Range(NewCalls) : c.type = lastCall'.type
            /\ \A u \in ExtensionType \ {lastCall'.type} :
                  queue'[u] = queue[u]]_vars

\* Installing handlers for one type delivered a queued record that is still
\* queued for the other type it declares.
C26_Witness ==
    /\ lastCall.method \in HandleMethods
    /\ error = NoError
    /\ calls # <<>>
    /\ calls[Len(calls)].type = lastCall.type
    /\ Len(calls[Len(calls)].ext.type.items) >= 2
    /\ \E u \in ExtensionType \ {lastCall.type} :
          /\ ~Handled(u)
          /\ calls[Len(calls)].ext \in Range(queue[u])

\* The signal after a setter that took a field from `before` to `after`.
Signalled(before, after) == pixiChanged' = (pixiChanged \/ after # before)

\* The same for a setter of a field of the node's Transform, which throws
\* when the node has none.
TransformSignalled(o, before, after) ==
    IF transform[o] = Null THEN pixiChanged' = pixiChanged
    ELSE Signalled(before[transform[o]], after[transform[o]])

\* C27: the alpha, visible, renderable, zIndex, x, y and rotation setters
\* leave the global changed signal as it was when the value assigned is the
\* field's current one and set it to true when it is another; no operation
\* on a node takes the signal from true to false.
C27_SignalFollowsChange ==
    [][/\ pixiChanged => pixiChanged'
       /\ \A o \in Nodes :
            /\ Step("alpha", o) => Signalled(alpha[o], alpha'[o])
            /\ Step("visible", o) => Signalled(visible[o], visible'[o])
            /\ Step("renderable", o) => Signalled(renderable[o], renderable'[o])
            /\ Step("zIndex", o) => Signalled(zIndex[o], zIndex'[o])
            /\ Step("x", o) =>
                 TransformSignalled(o, [t \in Objects |-> position[t].x],
                                    [t \in Objects |-> position'[t].x])
            /\ Step("y", o) =>
                 TransformSignalled(o, [t \in Objects |-> position[t].y],
                                    [t \in Objects |-> position'[t].y])
            /\ Step("rotation", o) =>
                 TransformSignalled(o, rotation, rotation')]_vars

\* The rotation setter assigned a node another rotation than it had, as the
\* first operation: the signal, false until then, is set.
C27_Witness ==
    /\ Returned("rotation", "G")
    /\ nOps = 1
    /\ rotation[transform["G"]] = Infinity
    /\ pixiChanged

\* The ancestors of a node.
RECURSIVE AncestorsOf(_)
AncestorsOf(o) ==
    IF parent[o] = Null THEN {} ELSE {parent[o]} \cup AncestorsOf(parent[o])

\* C28: a getBounds or toGlobal call on a node that has a parent leaves
\* _boundsID, _lastBoundsID and worldAlpha of every ancestor of the node as
\* they were; with skipUpdate false it increments the node's _boundsID by
\* one, with skipUpdate true it leaves the node's _boundsID and worldAlpha
\* as they were too.
C28_QueriesTouchOnlyTheNode ==
    [][\A o \in Nodes :
         (lastOp'.op \in {"getBounds", "toGlobal"} /\ lastOp'.node = o
          /\ nOps' = nOps + 1 /\ parent[o] # Null)
            => /\ \A a \in AncestorsOf(o) :
                     /\ boundsID'[a] = boundsID[a]
                     /\ lastBoundsID'[a] = lastBoundsID[a]
                     /\ worldAlpha'[a] = worldAlpha[a]
               /\ IF lastOp'.skipUpdate
                  THEN boundsID'[o] = boundsID[o] /\ worldAlpha'[o] = worldAlpha[o]
                  ELSE boundsID'[o] = boundsID[o] + 1]_vars

\* getBounds refreshed G below an ancestor whose alpha had been set: the
\* ancestor's worldAlpha and _boundsID are what they were.
C28_Witness ==
    /\ Returned("getBounds", "G")
    /\ ~lastOp.skipUpdate
    /\ parent["G"] = "C"
    /\ boundsID["G"] = 1
    /\ boundsID["C"] = 0 /\ boundsID["R"] = 0
    /\ alpha["C"] = Rat(1, 2)
    /\ worldAlpha["C"] = Rat(1, 1)

====
